---- MODULE Spec2Model ----
(***************************************************************************)
(* A model of the running-routes scripts.  Each script is a sequential,    *)
(* one-shot program, so every function under study gets its own            *)
(* specification: Init draws the function's inputs from bounded sets and   *)
(* the actions apply the function as the source computes it.               *)
(*                                                                         *)
(* Conventions                                                             *)
(*   - Python's None is the empty tuple, a present value v is <<v>>.       *)
(*   - Coordinates are integers on a small grid.  geodesic(...) and the    *)
(*     nearest-node distance of osmnx are the grid's Manhattan metric.     *)
(*   - Lengths, elevations and penalties are integers instead of floats.   *)
(***************************************************************************)
EXTENDS Integers, Sequences, FiniteSets, TLC

None == <<>>
Some(v) == <<v>>
IsNone(o) == o = <<>>
Val(o) == o[1]
Abs(n) == IF n < 0 THEN 0 - n ELSE n
Max2(a, b) == IF a >= b THEN a ELSE b

\* All sequences over S of length at most n.
SeqsUpTo(S, n) == UNION {[1..k -> S] : k \in 0..n}

(***************************************************************************)
(* Bounds of the model.                                                    *)
(***************************************************************************)
\* Longest waypoint list handed to validate_waypoints.
MaxValidateLen == 3
\* Largest latitude of a waypoint handed to validate_waypoints.
MaxValidateLat == 1

\* Largest number of nodes of a graph.
MaxNodes == 3
\* Largest number of edges of a graph drawn as an input.
MaxEdges == 3
\* Longest list of node ids handed to calculate_paths.
MaxRouteLen == 3
\* Longest explicit node list handed to fetch_srtm_elevations.
MaxFetchNodes == 2
\* Largest batch_size handed to fetch_srtm_elevations.
MaxBatchSize == 2
\* Largest number of calls of download_osm_graph in one behaviour.
MaxCalls == 2
\* Last tick of the clock; a tick is half a day.
MaxClock == 3
\* Largest max_cache_age_days.
MaxCacheAge == 1
\* Longest waypoint list handed to snap_waypoints_to_graph.
MaxSnapLen == 2
\* Largest grid coordinate of a waypoint that is snapped.
MaxGrid == 2
\* Largest snap threshold.
MaxThreshold == 2

\* Longest track handed to identify_new_path_segments.
MaxTrackLen == 4
\* Largest distance of a track point from the OSM paths, and largest tolerance.
MaxDistance == 2
\* Largest min_segment_length.
MaxMinSegmentLength == 2

\* Largest number of waypoints of a GPX file handed to extract_waypoints.
MaxExtractLen == 2
\* Largest latitude of a waypoint of such a file, and largest max_distance.
MaxExtractLat == 2

\* Largest number of points of one track segment of a file handed to parse_gpx_tracks.
MaxSegmentPoints == 2

\* Largest number of new path segments handed to an export.
MaxExportSegments == 2
\* Largest number of points of one exported segment.
MaxExportPoints == 2

\* The Strava client's clock runs in ticks; the model's short window is
\* ShortWindow ticks (900 seconds in the code), its daily window DailyWindow
\* ticks (86400 seconds), and its two limits ShortLimit (100) and DailyLimit (1000).
ShortWindow == 1
DailyWindow == 3
ShortLimit == 1
DailyLimit == 2
\* Last tick of the Strava client's clock.
MaxStravaClock == 3
\* Largest number of HTTP requests one behaviour of the Strava client issues.
MaxStravaRequests == 3
\* Largest cache_ttl, in ticks, handed to _make_request.
MaxCacheTtl == 1

\* Largest number of waypoints of a file handed to enrich_gpx_with_hill_data.
MaxEnrichLen == 2

\* Largest number of waypoints of a source file of generate_gpx_files.
MaxSourceLen == 2
\* Largest number of tracks of a source file of generate_gpx_files.
MaxSourceTracks == 2

\* The batch size of get_elevation_open_elevation in the model (100 in the code).
OpenElevationBatchSize == 2
\* Largest number of coordinates handed to get_elevation_open_elevation.
MaxCoordinates == 6

\* The significant decimal digits of a float in the model (Python's float
\* has 53 binary digits).
FloatDigits == 2
\* Largest number of elevations chosen freely for validate_elevation_data.
MaxElevations == 3
\* The number of further points, all as high as the last one, that a long
\* list of elevations ends with.
FlatTail == 8

\* Largest number of tracks of the GPX file of process_gpx_elevation, and of
\* segments of a track.
MaxGpxTracks == 2
MaxGpxSegments == 2

\* Largest number of waypoints of the input file of main.
MaxMainLen == 3

\* Largest number of calls of refresh_access_token on one client.
MaxRefreshCalls == 2

VARIABLES
    \* The networkx graph the routing functions work on.
    graph,
    \* snap_waypoints_to_graph: its arguments, its two results, its position.
    sn_waypoints, sn_snap_threshold, sn_snapped_nodes, sn_kept_waypoints, sn_pc,
    \* fetch_srtm_elevations: its arguments nodes and batch_size, the elevation
    \* cache file, the environment variable OPENTOPO_API_KEY, the HTTP requests
    \* issued and what the service answered to each, the number of times the
    \* cache file was written, the mapping returned, and the position of the call.
    el_nodes, el_batch_size, el_cache_file, el_api_key_env, el_requests, el_responses,
    el_save_calls, el_elevations, el_pc,
    \* download_osm_graph: the files of .graph_cache, the clock, the number of
    \* calls made, the last call (arguments, what it found, what the download
    \* did), the value it returned, and every cache file a call has used.
    dl_files, dl_now, dl_calls, dl_call, dl_result, dl_used,
    \* add_elevation_costs: its two penalties and its position.
    ec_gain_penalty, ec_loss_penalty, ec_pc,
    \* calculate_paths: its argument, its result, its position.
    rt_node_ids, rt_paths, rt_pc,
    \* identify_new_path_segments: its four arguments, its result, its position.
    sg_track_points, sg_distances, sg_tolerance, sg_min_segment_length,
    sg_new_segments, sg_pc,
    \* extract_waypoints: the GPX file at the path, the arguments the caller
    \* gives, how the call ended and what it returned.
    xw_file, xw_call_args, xw_max_waypoints, xw_max_distance, xw_outcome, xw_result,
    \* parse_gpx_tracks: the GPX file at the path, how the call ended, its result.
    pt_file, pt_outcome, pt_track_points,
    \* export_new_paths_to_gpx: its segments, whether the output path can be
    \* written, the document written to the file, how the call ended, its result.
    ex_new_segments, ex_writable, ex_file, ex_outcome, ex_result,
    \* from infer_new_paths_from_gpx import (...): the names asked for, how the import ended.
    im_names, im_outcome,
    \* StravaAPIClient: time.time(), access_token, the two rate limit records,
    \* the cache directory (cache key -> file or None), the times at which
    \* requests.get was called, whether a response carried X-RateLimit-Usage,
    \* and the last _make_request call with what it returned.
    sv_clock, sv_access_token, sv_rate_limit_short, sv_rate_limit_daily, sv_cache,
    sv_http_log, sv_usage_seen, sv_last,
    \* enrich_gpx_with_hill_data: the waypoints of the input file, the hill
    \* table, how the call ended, the waypoints written to the output file,
    \* the hill row each waypoint was updated from, the updated counter, and
    \* the warnings.
    en_waypoints, en_hill_df, en_outcome, en_output, en_matched, en_updated, en_warnings,
    \* extract_derivative_files: the waypoints and tracks of the source file,
    \* how the call ended, and the files written (prefix-less name -> content).
    gd_waypoints, gd_tracks, gd_outcome, gd_files,
    \* get_elevation_open_elevation: the coordinates, the payloads posted, what
    \* the service answered to each, the list returned, and where the call is.
    oe_coordinates, oe_requests, oe_outcomes, oe_elevations, oe_pc,
    \* validate_elevation_data: the elevations (in tenths of a metre, None for
    \* a missing one), the number of coordinates, how this Python sums floats,
    \* the dictionary returned, and where the call is.
    vd_elevations, vd_coordinates, vd_summation, vd_result, vd_pc,
    \* process_gpx_elevation: the tracks parsed from the input file, the api
    \* argument, what the elevation service answers to the requests of a
    \* segment, the dictionary returned, the tracks written to the output file
    \* (None while not written), and where the call is.
    pe_tracks, pe_api, pe_outcomes, pe_results, pe_output, pe_pc,
    \* main of plot_route_from_waypoints.py, from group_waypoints on: the
    \* waypoints extract_waypoints returned, args.snap_threshold, the groups,
    \* the number of groups the loop has passed, what snapping returned for
    \* each of them (None where it was not called), the routes dictionary, the
    \* GPX written (None before), and where main is.
    mp_waypoints, mp_snap_threshold, mp_groups, mp_done, mp_node_ids, mp_routes, mp_gpx, mp_pc,
    \* refresh_access_token: the client's access_token, refresh_token,
    \* client_id and client_secret, the number of calls made and of token
    \* requests posted, the response to the last request (None without one),
    \* and how the last call ended.
    rf_access_token, rf_refresh_token, rf_client_id, rf_client_secret, rf_calls, rf_posts, rf_response, rf_outcome,
    \* validate_waypoints: its arguments and how the call ended.
    vw_waypoints, vw_max_waypoints, vw_max_distance, vw_outcome

validateVars == <<vw_waypoints, vw_max_waypoints, vw_max_distance, vw_outcome>>

snapVars == <<sn_waypoints, sn_snap_threshold, sn_snapped_nodes, sn_kept_waypoints, sn_pc>>

costVars == <<ec_gain_penalty, ec_loss_penalty, ec_pc>>

routeVars == <<rt_node_ids, rt_paths, rt_pc>>

elevationVars == <<el_nodes, el_batch_size, el_cache_file, el_api_key_env, el_requests, el_responses,
                   el_save_calls, el_elevations, el_pc>>

downloadVars == <<dl_files, dl_now, dl_calls, dl_call, dl_result, dl_used>>

segmentsVars == <<sg_track_points, sg_distances, sg_tolerance, sg_min_segment_length, sg_new_segments, sg_pc>>

extractVars == <<xw_file, xw_call_args, xw_max_waypoints, xw_max_distance, xw_outcome, xw_result>>

parseVars == <<pt_file, pt_outcome, pt_track_points>>

exportVars == <<ex_new_segments, ex_writable, ex_file, ex_outcome, ex_result>>

importVars == <<im_names, im_outcome>>

stravaVars == <<sv_clock, sv_access_token, sv_rate_limit_short, sv_rate_limit_daily, sv_cache, sv_http_log, sv_usage_seen, sv_last>>

enrichVars == <<en_waypoints, en_hill_df, en_outcome, en_output, en_matched, en_updated,
                en_warnings>>

deriveVars == <<gd_waypoints, gd_tracks, gd_outcome, gd_files>>

openElevationVars == <<oe_coordinates, oe_requests, oe_outcomes, oe_elevations, oe_pc>>

validateElevationVars == <<vd_elevations, vd_coordinates, vd_summation, vd_result, vd_pc>>

processElevationVars == <<pe_tracks, pe_api, pe_outcomes, pe_results, pe_output, pe_pc>>

mainVars == <<mp_waypoints, mp_snap_threshold, mp_groups, mp_done, mp_node_ids, mp_routes, mp_gpx, mp_pc>>

refreshVars == <<rf_access_token, rf_refresh_token, rf_client_id, rf_client_secret, rf_calls, rf_posts, rf_response, rf_outcome>>

vars == <<graph, validateVars, snapVars, costVars, routeVars, elevationVars, downloadVars,
         segmentsVars, extractVars, parseVars, exportVars, importVars, stravaVars,
         enrichVars, deriveVars, openElevationVars, validateElevationVars,
         processElevationVars, mainVars, refreshVars>>

(***************************************************************************)
(* plot_route_from_waypoints.py: validate_waypoints                        *)
(***************************************************************************)
ValidateLats == {None} \cup {Some(v) : v \in 0..MaxValidateLat}
ValidateLons == {None, Some(0)}
ValidatePoints == [lat : ValidateLats, lon : ValidateLons]

\* geodesic((lat1, lon1), (lat2, lon2)).km
haversine_km(p1, p2) ==
    Abs(Val(p1.lat) - Val(p2.lat)) + Abs(Val(p1.lon) - Val(p2.lon))

\* [wpt for wpt in waypoints if wpt[0] is not None and wpt[1] is not None]
valid_waypoints_of(waypoints) ==
    SelectSeq(waypoints, LAMBDA wpt : ~IsNone(wpt.lat) /\ ~IsNone(wpt.lon))

\* Mutant of distance_exceeds: the limit itself is rejected too.
distance_exceeds_inclusive(dist, max_distance) == dist >= max_distance

\* if dist > max_distance
distance_exceeds(dist, max_distance) == dist > max_distance

\* The whole call: "exit1" is sys.exit(1), "returned" is falling off the end.
validate_waypoints(waypoints, max_waypoints, max_distance) ==
    LET valid_waypoints == valid_waypoints_of(waypoints) IN
    IF Len(valid_waypoints) < Len(waypoints) THEN "exit1"
    ELSE IF Len(valid_waypoints) > max_waypoints THEN "exit1"
    ELSE IF \E i \in 1..(Len(valid_waypoints) - 1) :
                distance_exceeds(
                    haversine_km(valid_waypoints[i], valid_waypoints[i + 1]),
                    max_distance)
         THEN "exit1"
    ELSE "returned"

ValidateInit ==
    /\ vw_waypoints \in SeqsUpTo(ValidatePoints, MaxValidateLen)
    /\ vw_max_waypoints \in 1..MaxValidateLen
    /\ vw_max_distance \in 0..MaxValidateLat
    /\ vw_outcome = "pending"

ValidateIdle ==
    /\ vw_waypoints = <<>>
    /\ vw_max_waypoints = 0
    /\ vw_max_distance = 0
    /\ vw_outcome = "idle"

ValidateWaypoints ==
    /\ vw_outcome = "pending"
    /\ vw_outcome' = validate_waypoints(vw_waypoints, vw_max_waypoints, vw_max_distance)
    /\ UNCHANGED <<vw_waypoints, vw_max_waypoints, vw_max_distance>>

(***************************************************************************)
(* The graph: a networkx MultiDiGraph as osmnx builds it.  Nodes carry x,  *)
(* y and (once fetched) elevation; edges carry length and, once            *)
(* add_elevation_costs has run, elevation_gain, elevation_loss and cost.   *)
(* Parallel edges are left out: an edge is the pair <<u, v>>.              *)
(***************************************************************************)
\* Node n of an input graph lies at (NodeX(n), NodeY(n)): three nodes to a row.
NodeX(n) == (n - 1) % 3
NodeY(n) == (n - 1) \div 3

\* Distance between a graph node and the point (x, y).
NodeDistance(g, n, x, y) == Abs(g.x[n] - x) + Abs(g.y[n] - y)

\* A graph as download_osm_graph hands it on: no elevation, no cost.
MkGraph(nodes, edges, length) ==
    [nodes |-> nodes,
     x |-> [n \in nodes |-> NodeX(n)],
     y |-> [n \in nodes |-> NodeY(n)],
     elevation |-> [n \in nodes |-> None],
     edges |-> edges,
     length |-> length,
     geometry |-> [e \in edges |-> None],
     elevation_gain |-> [e \in edges |-> None],
     elevation_loss |-> [e \in edges |-> None],
     cost |-> [e \in edges |-> None]]

EmptyGraph == MkGraph({}, {}, <<>>)

\* Every ordered pair of distinct nodes is an edge; its length is the distance of its ends.
CompleteGraph(nodes) ==
    LET edges == {e \in nodes \X nodes : e[1] # e[2]} IN
    MkGraph(nodes, edges,
            [e \in edges |-> Some(Abs(NodeX(e[1]) - NodeX(e[2])) + Abs(NodeY(e[1]) - NodeY(e[2])))])

(***************************************************************************)
(* plot_route_from_waypoints.py: snap_waypoints_to_graph                   *)
(***************************************************************************)
SnapPoints == [lat : 0..MaxGrid, lon : 0..1]

\* ox.projection.project_geometry(ShapelyPoint(lon, lat), to_crs=graph.graph['crs'])[0]
\* for a graph whose CRS is latitude/longitude: x is the longitude, y the latitude.
project_point(wpt) == [x |-> wpt.lon, y |-> wpt.lat]

\* ox.distance.nearest_nodes(graph, x, y, return_dist=True): the candidates for
\* the node returned; among equally near nodes the library's choice is its own.
nearest_nodes(g, x, y) ==
    {n \in g.nodes : \A m \in g.nodes : NodeDistance(g, n, x, y) <= NodeDistance(g, m, x, y)}

\* Mutant of snap_skips: a waypoint exactly at the threshold is skipped too.
snap_skips_inclusive(distance, snap_threshold) == distance >= snap_threshold

\* if distance > snap_threshold
snap_skips(distance, snap_threshold) == distance > snap_threshold

\* The loop over the waypoints from position i on; nearest[i] is the node
\* nearest_nodes returned for waypoint i.
RECURSIVE snap_loop(_, _, _, _, _)
snap_loop(g, waypoints, snap_threshold, nearest, i) ==
    IF i > Len(waypoints)
    THEN [snapped_nodes |-> <<>>, kept_waypoints |-> <<>>]
    ELSE LET wpt == waypoints[i]
             point_proj == project_point(wpt)
             nearest_node == nearest[i]
             distance == NodeDistance(g, nearest_node, point_proj.x, point_proj.y)
             rest == snap_loop(g, waypoints, snap_threshold, nearest, i + 1)
         IN  IF snap_skips(distance, snap_threshold)
             THEN rest
             ELSE [snapped_nodes |-> <<nearest_node>> \o rest.snapped_nodes,
                   kept_waypoints |-> <<wpt>> \o rest.kept_waypoints]

snap_waypoints_to_graph(g, waypoints, snap_threshold, nearest) ==
    snap_loop(g, waypoints, snap_threshold, nearest, 1)

\* The choices nearest_nodes can make for a list of waypoints.
NearestChoices(g, waypoints) ==
    {nearest \in [1..Len(waypoints) -> g.nodes] :
        \A i \in 1..Len(waypoints) :
            nearest[i] \in nearest_nodes(g, project_point(waypoints[i]).x,
                                         project_point(waypoints[i]).y)}

\* Graphs on the first nodes, and one with a gap: a waypoint between nodes 1
\* and 3 is equally near to both.
SnapGraphs == {CompleteGraph(1..n) : n \in 1..MaxNodes} \cup {CompleteGraph({1, 3})}

SnapInit ==
    /\ graph \in SnapGraphs
    /\ sn_waypoints \in SeqsUpTo(SnapPoints, MaxSnapLen)
    /\ sn_snap_threshold \in 0..MaxThreshold
    /\ sn_snapped_nodes = <<>>
    /\ sn_kept_waypoints = <<>>
    /\ sn_pc = "pending"

SnapIdle ==
    /\ sn_waypoints = <<>>
    /\ sn_snap_threshold = 0
    /\ sn_snapped_nodes = <<>>
    /\ sn_kept_waypoints = <<>>
    /\ sn_pc = "idle"

\* The call leaves the graph as it is: no statement of the function writes to it.
SnapWaypointsToGraph ==
    /\ sn_pc = "pending"
    /\ \E nearest \in NearestChoices(graph, sn_waypoints) :
          LET r == snap_waypoints_to_graph(graph, sn_waypoints, sn_snap_threshold, nearest) IN
          /\ sn_snapped_nodes' = r.snapped_nodes
          /\ sn_kept_waypoints' = r.kept_waypoints
    /\ sn_pc' = "done"
    /\ UNCHANGED <<graph, sn_waypoints, sn_snap_threshold>>

(***************************************************************************)
(* plot_route_from_waypoints.py: _edge_length, add_elevation_costs         *)
(***************************************************************************)
\* geodesic((y_u, x_u), (y_v, x_v)).m
geodesic_m(g, u, v) == NodeDistance(g, u, g.x[v], g.y[v])

\* data['length'] when set, else the length of data['geometry'], else the
\* geodesic distance of the two nodes.  (The source returns 0 when geodesic
\* raises; it does not raise for coordinates that are latitudes and longitudes.)
edge_length(g, e) ==
    IF ~IsNone(g.length[e]) THEN Val(g.length[e])
    ELSE IF ~IsNone(g.geometry[e]) THEN Val(g.geometry[e])
    ELSE geodesic_m(g, e[1], e[2])

\* Mutant of elevation_gain_of: the difference is taken the other way round.
elevation_gain_swapped(elev_u, elev_v) ==
    IF ~IsNone(elev_u) /\ ~IsNone(elev_v) THEN Max2(0, Val(elev_u) - Val(elev_v)) ELSE 0

\* gain = 0; if elev_u is not None and elev_v is not None: gain = max(0, elev_v - elev_u)
elevation_gain_of(elev_u, elev_v) ==
    IF ~IsNone(elev_u) /\ ~IsNone(elev_v) THEN Max2(0, Val(elev_v) - Val(elev_u)) ELSE 0

\* loss = 0; if elev_u is not None and elev_v is not None: loss = max(0, elev_u - elev_v)
elevation_loss_of(elev_u, elev_v) ==
    IF ~IsNone(elev_u) /\ ~IsNone(elev_v) THEN Max2(0, Val(elev_u) - Val(elev_v)) ELSE 0

\* The loop over graph.edges(keys=True, data=True): every edge is rewritten.
add_elevation_costs(g, gain_penalty, loss_penalty) ==
    LET gain(e) == elevation_gain_of(g.elevation[e[1]], g.elevation[e[2]])
        loss(e) == elevation_loss_of(g.elevation[e[1]], g.elevation[e[2]])
    IN  [g EXCEPT
            !.length = [e \in g.edges |-> Some(edge_length(g, e))],
            !.elevation_gain = [e \in g.edges |-> Some(gain(e))],
            !.elevation_loss = [e \in g.edges |-> Some(loss(e))],
            !.cost = [e \in g.edges |->
                         Some(edge_length(g, e) + gain_penalty * gain(e)
                                                + loss_penalty * loss(e))]]

\* The edge sets drawn as inputs: at most MaxEdges edges, each between two
\* neighbours of the chain of nodes (either way) or from the first node to the last.
EdgeSets(nodes) ==
    LET last == Cardinality(nodes)
        candidates == {e \in nodes \X nodes :
                          \/ e[1] - e[2] \in {1, 0 - 1}
                          \/ (e[1] = 1 /\ e[2] = last /\ last > 1)}
    IN  {es \in SUBSET candidates : Cardinality(es) <= MaxEdges}

NodeSets == {1..n : n \in 1..MaxNodes}

\* Edges with a length, edges with only a geometry, and edges with neither.
CostGraphsOn(nodes) ==
    {[MkGraph(nodes, edges,
              [e \in edges |-> IF (e[1] + e[2]) % 3 = 0 THEN Some(200) ELSE None])
        EXCEPT !.geometry = [e \in edges |-> IF (e[1] + e[2]) % 3 = 1 THEN Some(7) ELSE None],
               !.elevation = elevation] :
        edges \in EdgeSets(nodes), elevation \in [nodes -> {None, Some(100), Some(115)}]}

CostInit ==
    /\ \E nodes \in NodeSets : graph \in CostGraphsOn(nodes)
    /\ \E penalties \in {<<10, 2>>, <<0, 0>>, <<1, 3>>} :
          /\ ec_gain_penalty = penalties[1]
          /\ ec_loss_penalty = penalties[2]
    /\ ec_pc = "pending"

CostIdle ==
    /\ ec_gain_penalty = 0
    /\ ec_loss_penalty = 0
    /\ ec_pc = "idle"

AddElevationCosts ==
    /\ ec_pc = "pending"
    /\ graph' = add_elevation_costs(graph, ec_gain_penalty, ec_loss_penalty)
    /\ ec_pc' = "done"
    /\ UNCHANGED <<ec_gain_penalty, ec_loss_penalty>>

(***************************************************************************)
(* plot_route_from_waypoints.py: the elevation cache, fetch_srtm_elevations *)
(* and add_srtm_elevation_to_graph                                         *)
(*                                                                         *)
(* Latitudes and longitudes are counted in millionths of a degree; a cache *)
(* key "lat,lon" of two values rounded to 5 decimals is the pair of the    *)
(* two values counted in hundred-thousandths of a degree.                  *)
(***************************************************************************)
\* def fetch_srtm_elevations(graph, nodes=None, batch_size=90)
DefaultBatchSize == 90

OPEN_ELEVATION_ENDPOINT == "https://api.open-elevation.com/api/v1/lookup"

\* project_geometry(pt_proj, crs=graph_crs, to_latlong=True)[0]: a unit of the
\* graph's coordinates is 6 millionths of a degree.
to_latlon(x, y) == [lat |-> 6 * y, lon |-> 6 * x]

\* round(v, 5) of a value that is not negative.
round5(v) == (v + 5) \div 10

\* (round(pt_latlon.y, precision), round(pt_latlon.x, precision))
round_lat_lon(pt_latlon) == <<round5(pt_latlon.lat), round5(pt_latlon.lon)>>

\* coord_key = f"{lat},{lon}" of a graph node.
coord_key(g, node) == round_lat_lon(to_latlon(g.x[node], g.y[node]))

\* The cache file: absent, unreadable as JSON, or a JSON object.
CacheFile(state, data) == [state |-> state, data |-> data]

\* _load_elevation_cache: the JSON object of the file, {} when there is none.
load_elevation_cache(cache_file) ==
    IF cache_file.state = "valid" THEN cache_file.data ELSE <<>>

\* _save_elevation_cache: writes the file; an OSError leaves it as it was.
save_elevation_cache(cache, cache_file, save_ok) ==
    IF save_ok THEN CacheFile("valid", cache) ELSE cache_file

\* sorted(missing_keys): an ascending list of the keys.
KeyLess(a, b) == a[1] < b[1] \/ (a[1] = b[1] /\ a[2] < b[2])

RECURSIVE SortedKeys(_)
SortedKeys(keys) ==
    IF keys = {} THEN <<>>
    ELSE LET first == CHOOSE k \in keys : \A o \in keys \ {k} : KeyLess(k, o)
         IN  <<first>> \o SortedKeys(keys \ {first})

\* _batched(iterable, batch_size): iterable[i:i + batch_size] for i = 0, batch_size, ...
batched(iterable, batch_size) ==
    LET count == (Len(iterable) + batch_size - 1) \div batch_size IN
    [b \in 1..count |->
        SubSeq(iterable, (b - 1) * batch_size + 1,
               IF b * batch_size < Len(iterable) THEN b * batch_size ELSE Len(iterable))]

\* The elevation the service knows for a place.
Terrain(latitude, longitude) == 100 + 15 * (latitude \div 10) + 5 * (longitude \div 10)

\* What the service can answer to one request:
\*   "ok"       a result with an elevation for every location asked for,
\*   "partial"  an elevation for the first location only, null for the others,
\*   "foreign"  results whose coordinates are not the ones asked for,
\*   "fail"     requests.post or raise_for_status raises a RequestException.
ResponseKinds == {"ok", "partial", "foreign", "fail"}

ResponseResults(kind, locations) ==
    {[latitude |-> IF kind = "foreign" THEN locations[i].latitude + 1000
                   ELSE locations[i].latitude,
      longitude |-> locations[i].longitude,
      elevation |-> IF kind = "partial" /\ i > 1 THEN None
                    ELSE Some(Terrain(locations[i].latitude, locations[i].longitude))] :
        i \in 1..Len(locations)}

\* locations.append({"latitude": float(lat_str), "longitude": float(lon_str)})
locations_of(batch) ==
    [i \in 1..Len(batch) |-> [latitude |-> 10 * batch[i][1], longitude |-> 10 * batch[i][2]]]

\* requests.post(OPEN_ELEVATION_ENDPOINT, json=payload, timeout=30): no query
\* parameters (params is the set of <<name, value>> pairs sent), a JSON body.
elevation_request(batch) ==
    [method |-> "post", url |-> OPEN_ELEVATION_ENDPOINT, params |-> {},
     locations |-> locations_of(batch)]

\* Mutant of store_results: what is received is dropped.
store_results_dropped(cache, results) == cache

\* The results of one response written into the cache:
\* cache[f"{round(lat, 5)},{round(lon, 5)}"] = elevation
store_results(cache, results) ==
    LET usable == {r \in results : ~IsNone(r.elevation)}
        key(r) == <<round5(r.latitude), round5(r.longitude)>>
        new_keys == {key(r) : r \in usable}
    IN  [k \in (DOMAIN cache) \cup new_keys |->
            IF k \in new_keys
            THEN Val((CHOOSE r \in usable : key(r) = k).elevation)
            ELSE cache[k]]

\* for batch in _batched(sorted(missing_keys), batch_size): from batch i on.
\* outcomes[i] is what the service answers to the request for batch i.
RECURSIVE fetch_loop(_, _, _, _, _, _)
fetch_loop(cache, updated, requests, batches, outcomes, i) ==
    IF i > Len(batches)
    THEN [cache |-> cache, updated |-> updated, requests |-> requests]
    ELSE LET request == elevation_request(batches[i]) IN
         IF outcomes[i] = "fail"
         THEN [cache |-> cache, updated |-> updated,
               requests |-> Append(requests, request)]
         ELSE LET results == ResponseResults(outcomes[i], request.locations)
                  stored == \E r \in results : ~IsNone(r.elevation)
              IN  fetch_loop(store_results(cache, results), updated \/ stored,
                             Append(requests, request), batches, outcomes, i + 1)

\* nodes = nodes or list(graph.nodes)
nodes_or_all(g, nodes) ==
    IF IsNone(nodes) \/ Val(nodes) = <<>> THEN g.nodes
    ELSE {Val(nodes)[i] : i \in 1..Len(Val(nodes))}

\* Mutant of is_missing: every key is fetched again.
is_missing_always(cache, key) == TRUE

\* if coord_key not in cache
is_missing(cache, key) == key \notin DOMAIN cache

missing_keys_of(g, nodes, cache) ==
    {coord_key(g, n) : n \in {m \in nodes : is_missing(cache, coord_key(g, m))}}

\* The batches the call will ask for, given the file it finds.
fetch_batches(g, nodes, batch_size, cache_file) ==
    batched(SortedKeys(missing_keys_of(g, nodes_or_all(g, nodes),
                                       load_elevation_cache(cache_file))),
            batch_size)

\* The whole call.  Its result: the mapping returned, the cache file it
\* leaves, the requests it issued and the number of times it wrote the file.
fetch_srtm_elevations(g, nodes, batch_size, cache_file, outcomes, save_ok) ==
    LET node_set == nodes_or_all(g, nodes)
        cache0 == load_elevation_cache(cache_file)
        missing_keys == missing_keys_of(g, node_set, cache0)
        run == IF missing_keys # {}
               THEN fetch_loop(cache0, FALSE, <<>>,
                               batched(SortedKeys(missing_keys), batch_size), outcomes, 1)
               ELSE [cache |-> cache0, updated |-> FALSE, requests |-> <<>>]
        with_key == {n \in node_set : coord_key(g, n) \in DOMAIN run.cache}
    IN  IF node_set = {}
        THEN [elevations |-> <<>>, cache_file |-> cache_file, requests |-> <<>>,
              save_calls |-> 0]
        ELSE [elevations |-> [n \in with_key |-> run.cache[coord_key(g, n)]],
              cache_file |-> IF run.updated
                             THEN save_elevation_cache(run.cache, cache_file, save_ok)
                             ELSE cache_file,
              requests |-> run.requests,
              save_calls |-> IF run.updated THEN 1 ELSE 0]

\* ox.utils_graph.set_node_attributes(graph, elevations, name='elevation'), when
\* the osmnx that is installed has such a function: it sets the node attribute.
set_node_elevations(g, elevations) ==
    [g EXCEPT !.elevation = [n \in g.nodes |->
        IF n \in DOMAIN elevations THEN Some(elevations[n]) ELSE g.elevation[n]]]

\* What looking up ox.utils_graph.set_node_attributes can do.  The function is
\* networkx's; whether osmnx offers it under that name is the library's
\* business, and where it does not the lookup raises AttributeError.
AttributeLookups == {"found", "AttributeError"}

\* if not elevations
no_elevations(g, elevations) == DOMAIN elevations = {}

\* add_srtm_elevation_to_graph, given what fetch_srtm_elevations(graph) returned
\* and what the lookup of line 486 does: how the call ends and the graph then.
add_srtm_elevation_to_graph(g, elevations, gain_penalty, loss_penalty, lookup) ==
    IF no_elevations(g, elevations) THEN [pc |-> "annotated", graph |-> g]
    ELSE IF lookup = "AttributeError" THEN [pc |-> "raised", graph |-> g]
    ELSE [pc |-> "annotated",
          graph |-> add_elevation_costs(set_node_elevations(g, elevations),
                                        gain_penalty, loss_penalty)]

\* Graphs as download_osm_graph returns them: a chain of two-way edges.
ChainGraph(n) ==
    LET edges == {e \in (1..n) \X (1..n) : e[1] - e[2] \in {1, 0 - 1}} IN
    MkGraph(1..n, edges,
            [e \in edges |-> Some(Abs(NodeX(e[1]) - NodeX(e[2])) + Abs(NodeY(e[1]) - NodeY(e[2])))])

ElevationGraphs == {ChainGraph(n) : n \in 2..MaxNodes}

\* The keys of the nodes of the largest graph.
AllKeys == {coord_key(ChainGraph(MaxNodes), n) : n \in 1..MaxNodes}

CacheFiles ==
    {CacheFile("absent", <<>>), CacheFile("corrupt", <<>>)} \cup
    {CacheFile("valid", [k \in keys |-> 50 + k[1] + k[2]]) : keys \in SUBSET AllKeys}

ElevationInit ==
    /\ graph \in ElevationGraphs
    /\ el_nodes \in {None} \cup {Some(ns) : ns \in SeqsUpTo(graph.nodes, MaxFetchNodes)}
    /\ el_batch_size \in 1..MaxBatchSize
    /\ el_cache_file \in CacheFiles
    /\ el_api_key_env \in {None, Some("secret-key")}
    /\ el_requests = <<>>
    /\ el_responses = <<>>
    /\ el_save_calls = 0
    /\ el_elevations = <<>>
    /\ el_pc = "pending"

ElevationIdle ==
    /\ el_nodes = None
    /\ el_batch_size = 0
    /\ el_cache_file = CacheFile("absent", <<>>)
    /\ el_api_key_env = None
    /\ el_requests = <<>>
    /\ el_responses = <<>>
    /\ el_save_calls = 0
    /\ el_elevations = <<>>
    /\ el_pc = "idle"

\* A direct call fetch_srtm_elevations(graph, nodes, batch_size).
FetchSrtmElevations ==
    /\ el_pc = "pending"
    /\ \E outcomes \in [1..Len(fetch_batches(graph, el_nodes, el_batch_size, el_cache_file))
                          -> ResponseKinds],
          save_ok \in BOOLEAN :
          LET r == fetch_srtm_elevations(graph, el_nodes, el_batch_size, el_cache_file,
                                         outcomes, save_ok) IN
          /\ el_elevations' = r.elevations
          /\ el_cache_file' = r.cache_file
          /\ el_requests' = r.requests
          /\ el_responses' = SubSeq(outcomes, 1, Len(r.requests))
          /\ el_save_calls' = r.save_calls
    /\ el_pc' = "fetched"
    /\ UNCHANGED <<graph, el_nodes, el_batch_size, el_api_key_env>>

\* add_srtm_elevation_to_graph(graph, gain_penalty, loss_penalty), which calls
\* fetch_srtm_elevations(graph) with the default nodes and batch_size.
AddSrtmElevationToGraph ==
    /\ el_pc = "pending"
    /\ \E outcomes \in [1..Len(fetch_batches(graph, None, DefaultBatchSize, el_cache_file))
                          -> ResponseKinds],
          save_ok \in BOOLEAN, lookup \in AttributeLookups :
          LET r == fetch_srtm_elevations(graph, None, DefaultBatchSize, el_cache_file,
                                         outcomes, save_ok)
              a == add_srtm_elevation_to_graph(graph, r.elevations, ec_gain_penalty,
                                               ec_loss_penalty, lookup)
          IN
          /\ el_elevations' = r.elevations
          /\ el_cache_file' = r.cache_file
          /\ el_requests' = r.requests
          /\ el_responses' = SubSeq(outcomes, 1, Len(r.requests))
          /\ el_save_calls' = r.save_calls
          /\ graph' = a.graph
          /\ el_pc' = a.pc
    /\ UNCHANGED <<el_nodes, el_batch_size, el_api_key_env>>

(***************************************************************************)
(* plot_route_from_waypoints.py: select_weight_attribute, calculate_paths  *)
(***************************************************************************)
\* any('cost' in data for _, _, data in graph.edges(data=True))
select_weight_attribute(g) ==
    IF \E e \in g.edges : ~IsNone(g.cost[e]) THEN "cost" ELSE "length"

\* networkx reads an edge's weight attribute and takes 1 when the edge has none.
edge_weight(g, e, weight_attr) ==
    LET a == IF weight_attr = "cost" THEN g.cost[e] ELSE g.length[e] IN
    IF IsNone(a) THEN 1 ELSE Val(a)

IsInjective(p) == \A i, j \in DOMAIN p : p[i] = p[j] => i = j

\* The paths without a repeated node that lead from source to target.
SimplePaths(g, source, target) ==
    {p \in UNION {[1..k -> g.nodes] : k \in 1..Cardinality(g.nodes)} :
        /\ p[1] = source
        /\ p[Len(p)] = target
        /\ IsInjective(p)
        /\ \A i \in 1..(Len(p) - 1) : <<p[i], p[i + 1]>> \in g.edges}

RECURSIVE PathWeight(_, _, _, _)
PathWeight(g, p, weight_attr, i) ==
    IF i >= Len(p) THEN 0
    ELSE edge_weight(g, <<p[i], p[i + 1]>>, weight_attr) + PathWeight(g, p, weight_attr, i + 1)

\* Mutant of shortest_paths: source and target change places.
shortest_paths_swapped(g, source, target, weight_attr) ==
    LET paths == SimplePaths(g, target, source) IN
    {p \in paths : \A q \in paths :
        PathWeight(g, p, weight_attr, 1) <= PathWeight(g, q, weight_attr, 1)}

\* nx.shortest_path(graph, source, target, weight=weight_attr): the paths it can
\* return; the empty set stands for NetworkXNoPath.
shortest_paths(g, source, target, weight_attr) ==
    LET paths == SimplePaths(g, source, target) IN
    {p \in paths : \A q \in paths :
        PathWeight(g, p, weight_attr, 1) <= PathWeight(g, q, weight_attr, 1)}

\* Mutant of fallback_path: the fallback holds the start node only.
fallback_path_start_only(node_ids, i) == <<node_ids[i]>>

\* path = [node_ids[i], node_ids[i+1]]
fallback_path(node_ids, i) == <<node_ids[i], node_ids[i + 1]>>

\* One pass of the loop body: the paths it can append for the pair at i.
path_for_pair(g, node_ids, weight_attr, i) ==
    LET found == shortest_paths(g, node_ids[i], node_ids[i + 1], weight_attr) IN
    IF found = {} THEN {fallback_path(node_ids, i)} ELSE found

\* for i in range(len(node_ids) - 1): the lists of paths the loop can build from i on.
RECURSIVE calculate_loop(_, _, _, _)
calculate_loop(g, node_ids, weight_attr, i) ==
    IF i > Len(node_ids) - 1 THEN {<<>>}
    ELSE {<<p>> \o rest : p \in path_for_pair(g, node_ids, weight_attr, i),
                          rest \in calculate_loop(g, node_ids, weight_attr, i + 1)}

\* calculate_paths (and calculate_routes, which only calls it).
calculate_paths(g, node_ids) ==
    calculate_loop(g, node_ids, select_weight_attribute(g), 1)

\* Graphs without cost, and the same graphs after add_elevation_costs ran on
\* a slope that rises with the node id.
PlainGraphsOn(nodes) ==
    {MkGraph(nodes, edges,
             [e \in edges |-> Some(Abs(NodeX(e[1]) - NodeX(e[2])) + Abs(NodeY(e[1]) - NodeY(e[2])))]) :
        edges \in EdgeSets(nodes)}

PlainGraphs == UNION {PlainGraphsOn(nodes) : nodes \in NodeSets}

RouteGraphs ==
    PlainGraphs \cup
    {add_elevation_costs([g EXCEPT !.elevation = [n \in g.nodes |-> Some(100 + 15 * n)]], 10, 2) :
        g \in PlainGraphs}

RouteInit ==
    /\ graph \in RouteGraphs
    /\ rt_node_ids \in SeqsUpTo(graph.nodes, MaxRouteLen)
    /\ rt_paths = <<>>
    /\ rt_pc = "pending"

RouteIdle ==
    /\ rt_node_ids = <<>>
    /\ rt_paths = <<>>
    /\ rt_pc = "idle"

CalculatePaths ==
    /\ rt_pc = "pending"
    /\ rt_paths' \in calculate_paths(graph, rt_node_ids)
    /\ rt_pc' = "done"
    /\ UNCHANGED <<graph, rt_node_ids>>

(***************************************************************************)
(* download_osm_graph of plot_route_from_waypoints.py ("plot") and of      *)
(* infer_new_paths_from_gpx.py ("infer").  Time is counted in half days.   *)
(***************************************************************************)
\* hashlib.md5(f"{w},{s},{e},{n}".encode()).hexdigest(): the digest stands for
\* the string it is taken of.
bbox_hash(w, s, e, n) == <<w, s, e, n>>

\* cache_dir / f"graph_{hash_id}.graphml", cache_dir / f"paths_graph_{hash_id}.graphml"
cache_file_of(script, bbox) ==
    [prefix |-> IF script = "plot" THEN "graph_" ELSE "paths_graph_",
     hash_id |-> bbox_hash(bbox.west, bbox.south, bbox.east, bbox.north)]

\* datetime.now() - datetime.fromtimestamp(cache_file.stat().st_ctime)
file_age_of(files, cache_file, now) == now - files[cache_file].ctime

\* Mutant of cache_expired: only the whole days of the age are compared.
cache_expired_whole_days(file_age, max_cache_age_days) ==
    file_age \div 2 > max_cache_age_days

\* file_age > timedelta(days=max_cache_age_days)
cache_expired(file_age, max_cache_age_days) == file_age > 2 * max_cache_age_days

\* What OpenStreetMap serves for a bounding box at a time.
OsmGraph(bbox, now) == [kind |-> "graph", bbox |-> bbox, fetched |-> now]

MockGraph == [kind |-> "mock"]
Raised == [kind |-> "raised"]
NoResult == [kind |-> "none"]

\* The whole call.  download_ok: graph_from_bbox and save_graphml succeed;
\* otherwise the exception leaves the function.
download_osm_graph(script, bbox, max_cache_age_days, force_refresh, dry_run, files, now, download_ok) ==
    LET cache_file == cache_file_of(script, bbox)
        found == cache_file \in DOMAIN files
        file_age == IF found THEN Some(file_age_of(files, cache_file, now)) ELSE None
        graph_new == OsmGraph(bbox, now)
    IN  IF script = "infer" /\ dry_run
        THEN [result |-> MockGraph, files |-> files, downloaded |-> FALSE,
              cache_file |-> None, found |-> FALSE, file_age |-> None]
        ELSE IF found /\ ~(force_refresh \/ cache_expired(Val(file_age), max_cache_age_days))
        THEN [result |-> files[cache_file].graph, files |-> files, downloaded |-> FALSE,
              cache_file |-> Some(cache_file), found |-> found, file_age |-> file_age]
        ELSE IF download_ok
        THEN [result |-> graph_new,
              files |-> [f \in (DOMAIN files) \cup {cache_file} |->
                            IF f = cache_file THEN [ctime |-> now, graph |-> graph_new]
                            ELSE files[f]],
              downloaded |-> TRUE, cache_file |-> Some(cache_file),
              found |-> found, file_age |-> file_age]
        ELSE [result |-> Raised, files |-> files, downloaded |-> TRUE,
              cache_file |-> Some(cache_file), found |-> found, file_age |-> file_age]

BoundingBoxes ==
    {[north |-> 4, south |-> 3, east |-> 2, west |-> 1],
     [north |-> 2, south |-> 1, east |-> 4, west |-> 3]}

NoCall ==
    [script |-> "none", bbox |-> [north |-> 0, south |-> 0, east |-> 0, west |-> 0],
     max_cache_age_days |-> 0, force_refresh |-> FALSE, dry_run |-> FALSE,
     download_ok |-> FALSE, downloaded |-> FALSE, cache_file |-> None,
     found |-> FALSE, file_age |-> None]

DownloadInit ==
    /\ dl_files = <<>>
    /\ dl_now = 0
    /\ dl_calls = 0
    /\ dl_call = NoCall
    /\ dl_result = NoResult
    /\ dl_used = {}

\* One run of a script reaches download_osm_graph once, and a behaviour is the
\* runs of one of the two scripts: their cache files have different names.
\* The plot script has no dry_run parameter.  download_ok of the call recorded
\* says that a download was started and succeeded.
DownloadOsmGraph ==
    /\ dl_calls < MaxCalls
    /\ \E script \in {"plot", "infer"}, bbox \in BoundingBoxes,
          max_cache_age_days \in 0..MaxCacheAge, force_refresh \in BOOLEAN,
          dry_run \in BOOLEAN, download_ok \in BOOLEAN :
          LET r == download_osm_graph(script, bbox, max_cache_age_days, force_refresh,
                                      dry_run, dl_files, dl_now, download_ok) IN
          /\ dl_calls > 0 => script = dl_call.script
          /\ script = "plot" => ~dry_run
          /\ dl_files' = r.files
          /\ dl_result' = r.result
          /\ dl_call' = [script |-> script, bbox |-> bbox,
                         max_cache_age_days |-> max_cache_age_days,
                         force_refresh |-> force_refresh, dry_run |-> dry_run,
                         download_ok |-> r.downloaded /\ download_ok,
                         downloaded |-> r.downloaded,
                         cache_file |-> r.cache_file, found |-> r.found,
                         file_age |-> r.file_age]
          /\ dl_used' = IF IsNone(r.cache_file) THEN dl_used
                        ELSE dl_used \cup {<<script, bbox, Val(r.cache_file)>>}
    /\ dl_calls' = dl_calls + 1
    /\ UNCHANGED dl_now

\* Half a day passes.
Tick ==
    /\ dl_now < MaxClock
    /\ dl_now' = dl_now + 1
    /\ UNCHANGED <<dl_files, dl_calls, dl_call, dl_result, dl_used>>

DownloadIdle ==
    /\ dl_files = <<>>
    /\ dl_now = 0
    /\ dl_calls = 0
    /\ dl_call = NoCall
    /\ dl_result = NoResult
    /\ dl_used = {}

(***************************************************************************)
(* infer_new_paths_from_gpx.py: identify_new_path_segments                 *)
(***************************************************************************)
\* The i-th point of a track, as the tuple (lat, lon); the points of a track differ.
TrackPoint(i) == <<i, 10 - i>>

\* if distance > tolerance
beyond_tolerance(distance, tolerance) == distance > tolerance

\* if len(current_segment) >= min_segment_length
long_enough(segment, min_segment_length) == Len(segment) >= min_segment_length

\* The loop over enumerate(distances) from position i on, and the statement
\* after it that handles a segment that goes to the end.
RECURSIVE segments_loop(_, _, _, _, _, _, _)
segments_loop(track_points, distances, tolerance, min_segment_length, i, current_segment, new_segments) ==
    IF i > Len(distances)
    THEN IF long_enough(current_segment, min_segment_length)
         THEN Append(new_segments, current_segment)
         ELSE new_segments
    ELSE IF beyond_tolerance(distances[i], tolerance)
    THEN segments_loop(track_points, distances, tolerance, min_segment_length, i + 1,
                       Append(current_segment, track_points[i]), new_segments)
    ELSE segments_loop(track_points, distances, tolerance, min_segment_length, i + 1,
                       <<>>,
                       IF long_enough(current_segment, min_segment_length)
                       THEN Append(new_segments, current_segment)
                       ELSE new_segments)

identify_new_path_segments(track_points, distances, tolerance, min_segment_length) ==
    segments_loop(track_points, distances, tolerance, min_segment_length, 1, <<>>, <<>>)

\* main hands over the distances calculate_distances_to_osm_paths computed, one
\* for each track point; --min-segment-length is any integer, 0 included.
SegmentsInit ==
    /\ \E n \in 0..MaxTrackLen :
          /\ sg_track_points = [i \in 1..n |-> TrackPoint(i)]
          /\ sg_distances \in [1..n -> 0..MaxDistance]
    /\ sg_tolerance \in 0..MaxDistance
    /\ sg_min_segment_length \in 0..MaxMinSegmentLength
    /\ sg_new_segments = <<>>
    /\ sg_pc = "pending"

SegmentsIdle ==
    /\ sg_track_points = <<>>
    /\ sg_distances = <<>>
    /\ sg_tolerance = 0
    /\ sg_min_segment_length = 0
    /\ sg_new_segments = <<>>
    /\ sg_pc = "idle"

IdentifyNewPathSegments ==
    /\ sg_pc = "pending"
    /\ sg_new_segments' = identify_new_path_segments(sg_track_points, sg_distances,
                                                     sg_tolerance, sg_min_segment_length)
    /\ sg_pc' = "done"
    /\ UNCHANGED <<sg_track_points, sg_distances, sg_tolerance, sg_min_segment_length>>

(***************************************************************************)
(* plot_route_from_waypoints.py: get_custom_section, extract_waypoints     *)
(***************************************************************************)
\* The extensions of a waypoint: none, elements without an rr:section, an
\* rr:section with a text, an rr:section without a text.
NoExtensions == [kind |-> "none", text |-> None]
OtherExtension == [kind |-> "other", text |-> None]
SectionExtension(text) == [kind |-> "section", text |-> Some(text)]
EmptySectionExtension == [kind |-> "section", text |-> None]

\* get_custom_section(waypoint): section_elem.text.strip() of an element
\* without a text is an AttributeError, which the function does not catch.
get_custom_section(waypoint) ==
    IF waypoint.extensions.kind # "section" THEN [raised |-> FALSE, section |-> None]
    ELSE IF IsNone(waypoint.extensions.text) THEN [raised |-> TRUE, section |-> None]
    ELSE [raised |-> FALSE, section |-> waypoint.extensions.text]

\* (waypoint.latitude, waypoint.longitude, waypoint.name, waypoint.symbol, section)
waypoint_tuple(waypoint) ==
    [lat |-> Some(waypoint.latitude), lon |-> Some(waypoint.longitude),
     name |-> waypoint.name, symbol |-> waypoint.symbol,
     section |-> get_custom_section(waypoint).section]

\* The body of extract_waypoints called with all three arguments.
extract_waypoints(file, max_waypoints, max_distance) ==
    IF file.state = "missing" THEN [outcome |-> "SystemExit", result |-> <<>>]
    ELSE IF file.state = "invalid" THEN [outcome |-> "SystemExit", result |-> <<>>]
    ELSE IF \E i \in 1..Len(file.waypoints) : get_custom_section(file.waypoints[i]).raised
    THEN [outcome |-> "SystemExit", result |-> <<>>]
    ELSE LET waypoints == [i \in 1..Len(file.waypoints) |-> waypoint_tuple(file.waypoints[i])]
         IN  IF validate_waypoints(waypoints, max_waypoints, max_distance) = "exit1"
             THEN [outcome |-> "SystemExit", result |-> <<>>]
             ELSE [outcome |-> "returned", result |-> waypoints]

\* A call: def extract_waypoints(input, max_waypoints, max_distance) has no
\* defaults, so a call that gives the path alone raises TypeError.
call_extract_waypoints(call_args, file, max_waypoints, max_distance) ==
    IF call_args = "path" THEN [outcome |-> "TypeError", result |-> <<>>]
    ELSE extract_waypoints(file, max_waypoints, max_distance)

\* Name, symbol and extensions of the waypoints drawn as inputs.
WaypointDecorations ==
    {[name |-> None, symbol |-> None, extensions |-> NoExtensions],
     [name |-> Some("A"), symbol |-> Some("Flag"), extensions |-> SectionExtension("leg")],
     [name |-> Some("WP2"), symbol |-> None, extensions |-> OtherExtension],
     [name |-> None, symbol |-> Some("Summit"), extensions |-> EmptySectionExtension]}

GpxWaypoints ==
    {[latitude |-> lat, longitude |-> 0, name |-> d.name, symbol |-> d.symbol,
      extensions |-> d.extensions] : lat \in 0..MaxExtractLat, d \in WaypointDecorations}

GpxFiles ==
    {[state |-> "missing", waypoints |-> <<>>], [state |-> "invalid", waypoints |-> <<>>]} \cup
    {[state |-> "valid", waypoints |-> w] : w \in SeqsUpTo(GpxWaypoints, MaxExtractLen)}

\* The tests call extract_waypoints(path); main calls it with args.max_waypoints
\* and args.max_distance, which validate_arguments has found positive.
ExtractInit ==
    /\ xw_file \in GpxFiles
    /\ xw_call_args \in {"path", "all"}
    /\ xw_max_waypoints \in 1..MaxExtractLen
    /\ xw_max_distance \in 1..MaxExtractLat
    /\ xw_outcome = "pending"
    /\ xw_result = <<>>

ExtractIdle ==
    /\ xw_file = [state |-> "missing", waypoints |-> <<>>]
    /\ xw_call_args = "none"
    /\ xw_max_waypoints = 0
    /\ xw_max_distance = 0
    /\ xw_outcome = "idle"
    /\ xw_result = <<>>

ExtractWaypoints ==
    /\ xw_outcome = "pending"
    /\ LET r == call_extract_waypoints(xw_call_args, xw_file, xw_max_waypoints,
                                       xw_max_distance) IN
          /\ xw_outcome' = r.outcome
          /\ xw_result' = r.result
    /\ UNCHANGED <<xw_file, xw_call_args, xw_max_waypoints, xw_max_distance>>

(***************************************************************************)
(* infer_new_paths_from_gpx.py: parse_gpx_tracks                           *)
(* A parsed file is a sequence of tracks, a track a sequence of segments,  *)
(* a segment a sequence of points [latitude, longitude].                   *)
(***************************************************************************)
\* for point in segment.points: track_points.append((point.latitude, point.longitude))
RECURSIVE points_of_segment(_)
points_of_segment(segment) ==
    IF segment = <<>> THEN <<>>
    ELSE <<<<Head(segment).latitude, Head(segment).longitude>>>> \o points_of_segment(Tail(segment))

\* for segment in track.segments
RECURSIVE points_of_track(_)
points_of_track(track) ==
    IF track = <<>> THEN <<>>
    ELSE points_of_segment(Head(track)) \o points_of_track(Tail(track))

\* for track in gpx.tracks
RECURSIVE points_of_tracks(_)
points_of_tracks(tracks) ==
    IF tracks = <<>> THEN <<>>
    ELSE points_of_track(Head(tracks)) \o points_of_tracks(Tail(tracks))

\* Mutant of no_track_points: the test never fires.
no_track_points_never(track_points) == FALSE

\* if not track_points
no_track_points(track_points) == track_points = <<>>

\* The whole call.  A file that is missing or unreadable raises
\* FileNotFoundError or IOError, one that is not GPX raises GPXException.
parse_gpx_tracks(file) ==
    IF file.state \in {"missing", "unreadable", "invalid"}
    THEN [outcome |-> "exit1", track_points |-> <<>>]
    ELSE LET track_points == points_of_tracks(file.tracks) IN
         IF no_track_points(track_points)
         THEN [outcome |-> "exit1", track_points |-> <<>>]
         ELSE [outcome |-> "returned", track_points |-> track_points]

GpxTrackPoints ==
    [i \in 1..MaxSegmentPoints |-> [latitude |-> TrackPoint(i)[1], longitude |-> TrackPoint(i)[2]]]

\* The segments drawn as inputs: stretches of one line of points.
GpxSegments ==
    {SubSeq(GpxTrackPoints, a, b) : a \in 1..(MaxSegmentPoints + 1), b \in 0..MaxSegmentPoints}

\* At most two segments to a track and two tracks to a file.
GpxTracks == SeqsUpTo(GpxSegments, 2)

GpxTrackFiles ==
    {[state |-> st, tracks |-> <<>>] : st \in {"missing", "unreadable", "invalid"}} \cup
    {[state |-> "valid", tracks |-> t] : t \in SeqsUpTo(GpxTracks, 2)}

ParseInit ==
    /\ pt_file \in GpxTrackFiles
    /\ pt_outcome = "pending"
    /\ pt_track_points = <<>>

ParseIdle ==
    /\ pt_file = [state |-> "missing", tracks |-> <<>>]
    /\ pt_outcome = "idle"
    /\ pt_track_points = <<>>

ParseGpxTracks ==
    /\ pt_outcome = "pending"
    /\ LET r == parse_gpx_tracks(pt_file) IN
          /\ pt_outcome' = r.outcome
          /\ pt_track_points' = r.track_points
    /\ UNCHANGED pt_file

(***************************************************************************)
(* infer_new_paths_from_gpx.py: export_new_paths_to_gpx                    *)
(* The written document is a sequence of tracks [name, segments]; a track  *)
(* name f"New Path Segment {n}" is the pair of its text and its number.    *)
(***************************************************************************)
\* Mutant of track_name: numbered by enumerate's index itself.
track_name_from_zero(i) == <<"New Path Segment", i>>

\* track.name = f"New Path Segment {i + 1}", i the index enumerate gives (from 0).
track_name(i) == <<"New Path Segment", i + 1>>

\* for lat, lon in segment_points: segment.points.append(GPXTrackPoint(latitude=lat, longitude=lon))
gpx_track_segment(segment_points) ==
    [k \in 1..Len(segment_points) |->
        [latitude |-> segment_points[k][1], longitude |-> segment_points[k][2]]]

\* for i, segment_points in enumerate(new_segments): one track, one segment appended to it.
gpx_tracks(new_segments) ==
    [j \in 1..Len(new_segments) |->
        [name |-> track_name(j - 1), segments |-> <<gpx_track_segment(new_segments[j])>>]]

\* The whole call: the document is built, then written inside the try block;
\* an exception of open or write is caught and False returned.
export_new_paths_to_gpx(new_segments, writable) ==
    LET gpx == [creator |-> "infer_new_paths_from_gpx.py", tracks |-> gpx_tracks(new_segments)] IN
    IF writable
    THEN [outcome |-> "returned", result |-> Some(TRUE), file |-> Some(gpx)]
    ELSE [outcome |-> "returned", result |-> Some(FALSE), file |-> None]

ExportPoints == {TrackPoint(i) : i \in 1..2}

ExportSegments == SeqsUpTo(ExportPoints, MaxExportPoints)

ExportInit ==
    /\ ex_new_segments \in SeqsUpTo(ExportSegments, MaxExportSegments)
    /\ ex_writable \in BOOLEAN
    /\ ex_file = None
    /\ ex_outcome = "pending"
    /\ ex_result = None

ExportIdle ==
    /\ ex_new_segments = <<>>
    /\ ex_writable = FALSE
    /\ ex_file = None
    /\ ex_outcome = "idle"
    /\ ex_result = None

ExportNewPathsToGpx ==
    /\ ex_outcome = "pending"
    /\ LET r == export_new_paths_to_gpx(ex_new_segments, ex_writable) IN
          /\ ex_outcome' = r.outcome
          /\ ex_result' = r.result
          /\ ex_file' = r.file
    /\ UNCHANGED <<ex_new_segments, ex_writable>>

(***************************************************************************)
(* infer_new_paths_from_gpx.py: the names the module defines, and the      *)
(* import statement of its test module                                     *)
(***************************************************************************)
\* Every def of the module, top to bottom.
InferModuleFunctions ==
    {"parse_arguments", "parse_gpx_tracks", "calculate_bounding_box", "download_osm_graph",
     "calculate_distances_to_osm_paths", "identify_new_path_segments",
     "export_new_paths_to_gpx", "main"}

\* The names the test module imports from it.
TestImports ==
    {"parse_gpx_tracks", "calculate_bounding_box", "identify_new_path_segments",
     "export_new_paths_to_gpx", "export_new_paths_to_osm"}

\* from module import names: ImportError at the first name the module lacks.
import_from(module_names, names) ==
    IF names \subseteq module_names THEN "imported" ELSE "ImportError"

ImportInit ==
    /\ im_names \in (SUBSET (InferModuleFunctions \cup TestImports)) \ {{}}
    /\ im_outcome = "pending"

ImportIdle ==
    /\ im_names = {}
    /\ im_outcome = "idle"

ImportFromInfer ==
    /\ im_outcome = "pending"
    /\ im_outcome' = import_from(InferModuleFunctions, im_names)
    /\ UNCHANGED im_names

(***************************************************************************)
(* strava_integration.py: StravaAPIClient                                  *)
(* Response data is a JSON list: <<>> is the empty list, which Python      *)
(* takes for false.  A cache file is [mtime, json, content], json telling   *)
(* whether json.load can read it.                                          *)
(***************************************************************************)
\* _get_cache_key: the md5 of the endpoint and the sorted parameters, one key
\* for each different request.
_get_cache_key(endpoint, params) == <<endpoint, params>>

\* time.time() - stat.st_mtime > cache_ttl
cache_entry_expired(now, mtime, cache_ttl) == now - mtime > cache_ttl

\* _get_cached_data: None when the file is missing, expired or not JSON.
_get_cached_data(cache, cache_key, cache_ttl, now) ==
    IF cache[cache_key] = None THEN None
    ELSE LET file == Val(cache[cache_key]) IN
         IF cache_entry_expired(now, file.mtime, cache_ttl) THEN None
         ELSE IF ~file.json THEN None
         ELSE Some(file.content)

\* Python's truth value of what _get_cached_data returned: None, an empty
\* list and an empty dict are false.
truthy(cached_data) == cached_data # None /\ Val(cached_data) # <<>>

\* _cache_data: an OSError of open or json.dump is logged and swallowed.
_cache_data(cache, cache_key, data, now, write_ok) ==
    IF write_ok THEN [cache EXCEPT ![cache_key] = Some([mtime |-> now, json |-> TRUE, content |-> data])]
    ELSE cache

\* if current_time >= self.rate_limit_X['reset_time']: a new window from current_time.
reset_window(limit, current_time, length) ==
    IF current_time >= limit.reset_time
    THEN [requests |-> 0, reset_time |-> current_time + length]
    ELSE limit

\* if self.rate_limit_X['requests'] >= 100 (1000)
limit_reached(limit, most) == limit.requests >= most

\* _check_rate_limits: both windows are renewed first, then both limits tested.
_check_rate_limits(short, daily, current_time) ==
    LET s == reset_window(short, current_time, ShortWindow)
        d == reset_window(daily, current_time, DailyWindow)
    IN  [ok |-> ~limit_reached(s, ShortLimit) /\ ~limit_reached(d, DailyLimit), short |-> s, daily |-> d]

\* The counters after a response: both incremented, then overwritten by the
\* two numbers of X-RateLimit-Usage when the header is there.
count_response(limit, usage, k) ==
    IF usage = None THEN [limit EXCEPT !.requests = @ + 1]
    ELSE [limit EXCEPT !.requests = Val(usage)[k]]

\* What requests.get and the server can do: a response (status 200 with JSON
\* data, or an error status), with or without X-RateLimit-Usage, or a
\* RequestException of requests.get itself (timeout, connection lost), in
\* which case there is no response.
StravaData == {<<>>, <<"activity">>}

Responses ==
    {[kind |-> "ok", data |-> d, usage |-> u] : d \in StravaData, u \in {None, Some(<<0, 0>>)}} \cup
    {[kind |-> "http error", data |-> <<>>, usage |-> None]} \cup
    {[kind |-> "no response", data |-> <<>>, usage |-> None]}

\* _make_request.  The result names what is returned, whether requests.get
\* was called, and the client's state afterwards.
_make_request(cache_key, use_cache, cache_ttl, access_token, short, daily, cache, now, response, write_ok) ==
    LET unchanged == [short |-> short, daily |-> daily, cache |-> cache, http |-> FALSE]
        cached_data == _get_cached_data(cache, cache_key, cache_ttl, now)
        check == _check_rate_limits(short, daily, now)
    IN  IF ~access_token THEN [returned |-> None] @@ unchanged
        ELSE IF use_cache /\ truthy(cached_data) THEN [returned |-> cached_data] @@ unchanged
        ELSE IF ~check.ok
             THEN [returned |-> None, short |-> check.short, daily |-> check.daily, cache |-> cache, http |-> FALSE]
        ELSE IF response.kind = "no response"
             THEN [returned |-> None, short |-> check.short, daily |-> check.daily, cache |-> cache, http |-> TRUE]
        ELSE LET s == count_response(check.short, response.usage, 1)
                 d == count_response(check.daily, response.usage, 2)
             IN  IF response.kind = "http error"
                 THEN [returned |-> None, short |-> s, daily |-> d, cache |-> cache, http |-> TRUE]
                 ELSE [returned |-> Some(response.data), short |-> s, daily |-> d,
                       cache |-> IF use_cache THEN _cache_data(cache, cache_key, response.data, now, write_ok) ELSE cache,
                       http |-> TRUE]

\* get_athlete_activities and get_activity_details: the two requests the client makes.
CacheKeys == {_get_cache_key("athlete/activities", "page 1"), _get_cache_key("activities/1", "")}

StravaCacheFiles ==
    {None, Some([mtime |-> 0, json |-> FALSE, content |-> <<>>])} \cup
    {Some([mtime |-> 0, json |-> TRUE, content |-> c]) : c \in StravaData}

NoRequest == [cache_key |-> <<"", "">>, use_cache |-> FALSE, cache_ttl |-> 0, returned |-> None]

\* __init__: both counters 0, the windows start now; the token comes from the environment.
StravaInit ==
    /\ sv_clock = 0
    /\ sv_access_token \in BOOLEAN
    /\ sv_rate_limit_short = [requests |-> 0, reset_time |-> 0 + ShortWindow]
    /\ sv_rate_limit_daily = [requests |-> 0, reset_time |-> 0 + DailyWindow]
    /\ sv_cache \in [CacheKeys -> StravaCacheFiles]
    /\ sv_http_log = <<>>
    /\ sv_usage_seen = FALSE
    /\ sv_last = NoRequest

StravaIdle ==
    /\ sv_clock = 0
    /\ sv_access_token = FALSE
    /\ sv_rate_limit_short = [requests |-> 0, reset_time |-> 0]
    /\ sv_rate_limit_daily = [requests |-> 0, reset_time |-> 0]
    /\ sv_cache = [k \in CacheKeys |-> None]
    /\ sv_http_log = <<>>
    /\ sv_usage_seen = TRUE
    /\ sv_last = NoRequest

MakeRequest ==
    /\ sv_usage_seen = FALSE
    /\ Len(sv_http_log) < MaxStravaRequests
    /\ \E cache_key \in CacheKeys, use_cache \in BOOLEAN, cache_ttl \in 0..MaxCacheTtl, response \in Responses, write_ok \in BOOLEAN :
          LET r == _make_request(cache_key, use_cache, cache_ttl, sv_access_token, sv_rate_limit_short, sv_rate_limit_daily, sv_cache, sv_clock, response, write_ok)
          IN  /\ sv_rate_limit_short' = r.short
              /\ sv_rate_limit_daily' = r.daily
              /\ sv_cache' = r.cache
              /\ sv_http_log' = IF r.http THEN Append(sv_http_log, sv_clock) ELSE sv_http_log
              /\ sv_usage_seen' = (r.http /\ response.usage # None)
              /\ sv_last' = [cache_key |-> cache_key, use_cache |-> use_cache, cache_ttl |-> cache_ttl,
                             returned |-> r.returned]
    /\ UNCHANGED <<sv_clock, sv_access_token>>

\* Time passes between two calls.
StravaTick ==
    /\ sv_usage_seen = FALSE
    /\ sv_last # NoRequest \/ sv_clock = 0
    /\ sv_clock < MaxStravaClock
    /\ sv_clock' = sv_clock + 1
    /\ UNCHANGED <<sv_access_token, sv_rate_limit_short, sv_rate_limit_daily, sv_cache, sv_http_log, sv_usage_seen, sv_last>>

(***************************************************************************)
(* fix_summit_waypoints.py: enrich_gpx_with_hill_data                      *)
(* A text is a sequence of characters.  A waypoint's extensions hold no    *)
(* element ("none"), an element other than rr:dobih_number ("other"), or   *)
(* an rr:dobih_number element ("dobih") with its text, None when empty.    *)
(***************************************************************************)
Digits == {"0", "1", "2", "9"}

\* str.strip(): the white space at both ends goes.
RECURSIVE lstrip(_)
lstrip(text) == IF text # <<>> /\ Head(text) = " " THEN lstrip(Tail(text)) ELSE text

RECURSIVE rstrip(_)
rstrip(text) ==
    IF text # <<>> /\ text[Len(text)] = " " THEN rstrip(SubSeq(text, 1, Len(text) - 1)) ELSE text

strip(text) == rstrip(lstrip(text))

\* str.isdigit(): at least one character, and all of them digits.
isdigit(text) == text # <<>> /\ \A k \in 1..Len(text) : text[k] \in Digits

digit_value(c) == CASE c = "0" -> 0 [] c = "1" -> 1 [] c = "2" -> 2 [] c = "9" -> 9

\* int(hill_id) of a text of digits.
RECURSIVE int(_)
int(text) ==
    IF text = <<>> THEN 0
    ELSE 10 * int(SubSeq(text, 1, Len(text) - 1)) + digit_value(text[Len(text)])

\* get_custom_dobih_number(waypoint): elem.text.strip() of an element without
\* a text is an AttributeError, which is not the ParseError the function catches.
get_custom_dobih_number(waypoint) ==
    IF waypoint.extensions.kind # "dobih" THEN [raised |-> FALSE, hill_id |-> None]
    ELSE IF IsNone(waypoint.extensions.text) THEN [raised |-> TRUE, hill_id |-> None]
    ELSE [raised |-> FALSE, hill_id |-> Some(strip(Val(waypoint.extensions.text)))]

\* Mutant of hill_match: the comparison with the number is lost.
hill_match_any(hill_df, number) == hill_df

\* hill_df[hill_df['Number'] == int(hill_id)]
hill_match(hill_df, number) == SelectSeq(hill_df, LAMBDA row : row.Number = number)

\* if hill_id and hill_id.isdigit()
valid_hill_id(hill_id) == hill_id # None /\ Val(hill_id) # <<>> /\ isdigit(Val(hill_id))

\* The else branch of the ID test: a summit with a name gets the warning that
\* follows the suggestions, one without a name the other warning.
name_warning(waypoint) ==
    IF waypoint.name # None /\ waypoint.name # Some("") THEN Some("no DoBIH ID")
    ELSE Some("no name and no DoBIH ID")

\* One round of the loop over gpx.waypoints: the waypoint afterwards, the
\* row it was updated from and the warning appended.
enrich_waypoint(waypoint, hill_df) ==
    LET unchanged(warning) == [raised |-> FALSE, waypoint |-> waypoint, matched |-> None, warning |-> warning] IN
    IF waypoint.symbol # Some("Summit") THEN unchanged(None)
    ELSE LET id == get_custom_dobih_number(waypoint) IN
         IF id.raised THEN [raised |-> TRUE, waypoint |-> waypoint, matched |-> None, warning |-> None]
         ELSE IF ~valid_hill_id(id.hill_id) THEN unchanged(name_warning(waypoint))
         ELSE LET match == hill_match(hill_df, int(Val(id.hill_id))) IN
              IF match = <<>> THEN unchanged(Some("ID not found"))
              ELSE LET matched_row == match[1] IN
                   [raised |-> FALSE,
                    waypoint |-> [waypoint EXCEPT !.latitude = matched_row.Latitude,
                                                  !.longitude = matched_row.Longitude,
                                                  !.elevation = Some(matched_row.Metres),
                                                  !.name = Some(matched_row.Name)],
                    matched |-> Some(matched_row),
                    warning |-> None]

\* The whole call: the loop, then the output file is written.  An exception
\* in the loop ends the call before the output is opened.
enrich_gpx_with_hill_data(waypoints, hill_df) ==
    LET rounds == [i \in 1..Len(waypoints) |-> enrich_waypoint(waypoints[i], hill_df)] IN
    IF \E i \in 1..Len(waypoints) : rounds[i].raised
    THEN [outcome |-> "AttributeError", output |-> None, matched |-> <<>>, updated |-> 0, warnings |-> <<>>]
    ELSE [outcome |-> "written",
          output |-> Some([i \in 1..Len(waypoints) |-> rounds[i].waypoint]),
          matched |-> [i \in 1..Len(waypoints) |-> rounds[i].matched],
          updated |-> Cardinality({i \in 1..Len(waypoints) : rounds[i].matched # None}),
          warnings |-> LET warned == SelectSeq(rounds, LAMBDA round : round.warning # None) IN
                       [k \in 1..Len(warned) |-> Val(warned[k].warning)]]

\* load_hill_data: rows of Number, Name, Latitude, Longitude, Metres.
BenNevis == [Number |-> 1, Name |-> "Ben Nevis", Latitude |-> 56, Longitude |-> 5, Metres |-> 1345]
CairnGorm == [Number |-> 12, Name |-> "Cairn Gorm", Latitude |-> 57, Longitude |-> 3, Metres |-> 1245]

HillTables == {<<BenNevis, CairnGorm>>, <<CairnGorm>>}

DobihTexts == {<<" ", " ">>, <<"1">>, <<"1", "x">>, <<" ", "0", "1", " ">>, <<"1", "2">>}

SummitExtensions ==
    {[kind |-> "none", text |-> None], [kind |-> "other", text |-> None], [kind |-> "dobih", text |-> None]} \cup
    {[kind |-> "dobih", text |-> Some(t)] : t \in DobihTexts}

SummitWaypoints ==
    {[latitude |-> 0, longitude |-> 0, elevation |-> None, name |-> n, symbol |-> s, extensions |-> e] :
        n \in {None, Some("Ben Nevis")}, s \in {None, Some("Summit"), Some("summit")}, e \in SummitExtensions}

EnrichInit ==
    /\ en_waypoints \in SeqsUpTo(SummitWaypoints, MaxEnrichLen)
    /\ en_hill_df \in HillTables
    /\ en_outcome = "pending"
    /\ en_output = None
    /\ en_matched = <<>>
    /\ en_updated = 0
    /\ en_warnings = <<>>

EnrichIdle ==
    /\ en_waypoints = <<>>
    /\ en_hill_df = <<>>
    /\ en_outcome = "idle"
    /\ en_output = None
    /\ en_matched = <<>>
    /\ en_updated = 0
    /\ en_warnings = <<>>

EnrichGpxWithHillData ==
    /\ en_outcome = "pending"
    /\ LET r == enrich_gpx_with_hill_data(en_waypoints, en_hill_df) IN
          /\ en_outcome' = r.outcome
          /\ en_output' = r.output
          /\ en_matched' = r.matched
          /\ en_updated' = r.updated
          /\ en_warnings' = r.warnings
    /\ UNCHANGED <<en_waypoints, en_hill_df>>

(***************************************************************************)
(* generate_gpx_files.py: extract_derivative_files                         *)
(* A symbol is a text, a sequence of characters.  A source waypoint has    *)
(* its place in the source file as id.                                     *)
(***************************************************************************)
\* str.lower(), character by character.
lower_char(c) ==
    CASE c = "S" -> "s" [] c = "U" -> "u" [] c = "M" -> "m" [] c = "I" -> "i" [] c = "T" -> "t"
      [] OTHER -> c

lower(text) == [k \in 1..Len(text) |-> lower_char(text[k])]

\* Mutant of normalized_symbol: the white space stays.
normalized_symbol_unstripped(wpt) == lower(IF wpt.symbol = None THEN <<>> ELSE Val(wpt.symbol))

\* (wpt.symbol or '').strip().lower()
normalized_symbol(wpt) == lower(strip(IF wpt.symbol = None THEN <<>> ELSE Val(wpt.symbol)))

summit_text == <<"s", "u", "m", "m", "i", "t">>

\* extract_summits_and_poi: two list comprehensions over gpx.waypoints.
extract_summits_and_poi(waypoints) ==
    [peaks |-> SelectSeq(waypoints, LAMBDA wpt : normalized_symbol(wpt) = summit_text),
     poi |-> SelectSeq(waypoints, LAMBDA wpt : normalized_symbol(wpt) # summit_text)]

\* build_summits_gpx: every symbol becomes "Summit".
build_summits_gpx(summits) ==
    [k \in 1..Len(summits) |-> [summits[k] EXCEPT !.symbol = Some(<<"S", "u", "m", "m", "i", "t">>)]]

\* build_poi_gpx: a missing name becomes f"POI {i}", a missing symbol "Info".
build_poi_gpx(points_of_interest) ==
    [k \in 1..Len(points_of_interest) |->
        LET wpt == points_of_interest[k] IN
        [wpt EXCEPT !.name = IF wpt.name = None \/ wpt.name = Some("") THEN Some(<<"POI", k>>) ELSE @,
                    !.symbol = IF wpt.symbol = None \/ wpt.symbol = Some(<<>>) THEN Some(<<"I", "n", "f", "o">>) ELSE @]]

\* The waypoint objects are shared: the detailed file, written afterwards,
\* shows the source waypoints as the two builders left them.
RECURSIVE waypoint_with_id(_, _)
waypoint_with_id(waypoints, id) ==
    IF waypoints = <<>> THEN None
    ELSE IF Head(waypoints).id = id THEN Some(Head(waypoints))
    ELSE waypoint_with_id(Tail(waypoints), id)

\* Mutant of detailed_waypoints: the builders worked on copies.
detailed_waypoints_as_loaded(waypoints, built) == waypoints

detailed_waypoints(waypoints, built) ==
    [k \in 1..Len(waypoints) |-> Val(waypoint_with_id(built, waypoints[k].id))]

\* build_simplified_track_gpx: the points of all segments of all tracks in one segment.
\* for segment in track.segments: merged_segment.points.extend(segment.points)
RECURSIVE extend_with_segments(_, _)
extend_with_segments(points, segments) ==
    IF segments = <<>> THEN points
    ELSE extend_with_segments(points \o Head(segments), Tail(segments))

\* for track in gpx.tracks
RECURSIVE extend_with_tracks(_, _)
extend_with_tracks(points, tracks) ==
    IF tracks = <<>> THEN points
    ELSE extend_with_tracks(extend_with_segments(points, Head(tracks)), Tail(tracks))

merged_points(tracks) == extend_with_tracks(<<>>, tracks)

\* Mutant of simplified_tracks: one merged segment for each source track.
simplified_tracks_per_track(tracks) == <<[t \in 1..Len(tracks) |-> extend_with_segments(<<>>, tracks[t])]>>

\* build_simplified_track_gpx: one track of one segment with the merged points.
simplified_tracks(tracks) == <<<<merged_points(tracks)>>>>

\* The name of a written file: f"{prefix}-summits.gpx" and so on have number
\* 0, f"{prefix}-leg-{i}.gpx" has number i.
FileName(suffix) == <<suffix, 0>>

LegName(i) == <<"leg", i>>

\* write_gpx: the creator is set and path.write_text replaces the file's content.
write_gpx(files, gpx, path) ==
    [name \in DOMAIN files \cup {path} |->
        IF name = path THEN [gpx EXCEPT !.creator = "Thomas Turrell-Croft"] ELSE files[name]]

\* A new gpxpy.gpx.GPX() with its waypoints and tracks set.
GPX(waypoints, tracks) == [creator |-> None, waypoints |-> waypoints, tracks |-> tracks]

\* export_individual_legs: for i, track in enumerate(gpx.tracks, 1), from leg i on.
RECURSIVE export_individual_legs(_, _, _)
export_individual_legs(files, tracks, i) ==
    IF i > Len(tracks) THEN files
    ELSE export_individual_legs(write_gpx(files, GPX(<<>>, <<tracks[i]>>), LegName(i)), tracks, i + 1)

\* extract_derivative_files: the files after the writes, in the order of the code.
extract_derivative_files(files, waypoints, tracks) ==
    LET split == extract_summits_and_poi(waypoints)
        summits == build_summits_gpx(split.peaks)
        f1 == write_gpx(files, GPX(summits, <<>>), FileName("summits"))
        poi == build_poi_gpx(split.poi)
        f2 == write_gpx(f1, GPX(poi, <<>>), FileName("points-of-interest"))
        f3 == write_gpx(f2, GPX(<<>>, tracks), FileName("track"))
        f4 == write_gpx(f3, GPX(detailed_waypoints(waypoints, summits \o poi), tracks), FileName("detailed"))
        f5 == write_gpx(f4, GPX(<<>>, simplified_tracks(tracks)), FileName("simplified"))
    IN  export_individual_legs(f5, tracks, 1)

SourceSymbols ==
    {None, Some(<<>>), Some(<<"S", "u", "m", "m", "i", "t">>), Some(summit_text),
     Some(<<" ", "S", "U", "M", "M", "I", "T", " ">>), Some(<<"I", "n", "f", "o">>)}

SourceNames == {None, Some("Allermuir Hill")}

SourceWaypoints(n) ==
    {[k \in 1..n |-> [id |-> k, name |-> d[k][1], symbol |-> d[k][2]]] : d \in [1..n -> SourceNames \X SourceSymbols]}

\* The k-th point of track t.
SourcePoint(t, k) == [latitude |-> 10 * t + k, longitude |-> 0]

\* The shapes of a track: no segment, one segment of one point, two segments
\* of two points and one, an empty segment before one of one point.
SourceTrack(t, shape) ==
    CASE shape = 1 -> <<>>
      [] shape = 2 -> <<<<SourcePoint(t, 1)>>>>
      [] shape = 3 -> <<<<SourcePoint(t, 1), SourcePoint(t, 2)>>, <<SourcePoint(t, 3)>>>>
      [] shape = 4 -> <<<<>>, <<SourcePoint(t, 1)>>>>

SourceTracks(n) == {[t \in 1..n |-> SourceTrack(t, shapes[t])] : shapes \in [1..n -> 1..4]}

\* output_dir before the call.
NoFiles == <<>>

DeriveInit ==
    /\ \E n \in 0..MaxSourceLen : gd_waypoints \in SourceWaypoints(n)
    /\ \E n \in 0..MaxSourceTracks : gd_tracks \in SourceTracks(n)
    /\ gd_outcome = "pending"
    /\ gd_files = NoFiles

DeriveIdle ==
    /\ gd_waypoints = <<>>
    /\ gd_tracks = <<>>
    /\ gd_outcome = "idle"
    /\ gd_files = NoFiles

ExtractDerivativeFiles ==
    /\ gd_outcome = "pending"
    /\ gd_outcome' = "written"
    /\ gd_files' = extract_derivative_files(gd_files, gd_waypoints, gd_tracks)
    /\ UNCHANGED <<gd_waypoints, gd_tracks>>

(***************************************************************************)
(* enhance_elevation.py: ElevationProcessor.get_elevation_open_elevation   *)
(***************************************************************************)
\* What the service can answer to one request:
\*   "ok"     status 200 and one result with an elevation for every location,
\*   "null"   status 200 and one result for every location, elevation null,
\*   "short"  status 200 and a JSON object without results,
\*   "fail"   requests.post, raise_for_status or json raises.
OpenElevationOutcomes == {"ok", "null", "short", "fail"}

\* [result.get('elevation') for result in data.get('results', [])], and
\* [None] * len(batch) in the except clause.
batch_elevations(outcome, batch) ==
    CASE outcome = "ok" -> [k \in 1..Len(batch) |-> Some(Terrain(batch[k][1], batch[k][2]))]
      [] outcome = "null" -> [k \in 1..Len(batch) |-> None]
      [] outcome = "short" -> <<>>
      [] outcome = "fail" -> [k \in 1..Len(batch) |-> None]

\* for i in range(0, len(coordinates), batch_size): from batch b on.
RECURSIVE open_elevation_loop(_, _, _, _, _)
open_elevation_loop(elevations, requests, batches, outcomes, b) ==
    IF b > Len(batches) THEN [elevations |-> elevations, requests |-> requests]
    ELSE open_elevation_loop(elevations \o batch_elevations(outcomes[b], batches[b]),
                             Append(requests, batches[b]), batches, outcomes, b + 1)

\* The whole call.
get_elevation_open_elevation(coordinates, batch_size, outcomes) ==
    IF coordinates = <<>> THEN [elevations |-> <<>>, requests |-> <<>>]
    ELSE open_elevation_loop(<<>>, <<>>, batched(coordinates, batch_size), outcomes, 1)

\* Coordinate k of a segment.
Coordinate(k) == <<10 * k, 20 * k>>

OpenElevationInit ==
    /\ oe_coordinates \in {[k \in 1..n |-> Coordinate(k)] : n \in 0..MaxCoordinates}
    /\ oe_requests = <<>>
    /\ oe_outcomes = <<>>
    /\ oe_elevations = <<>>
    /\ oe_pc = "pending"

OpenElevationIdle ==
    /\ oe_coordinates = <<>>
    /\ oe_requests = <<>>
    /\ oe_outcomes = <<>>
    /\ oe_elevations = <<>>
    /\ oe_pc = "idle"

GetElevationOpenElevation ==
    /\ oe_pc = "pending"
    /\ \E outcomes \in [1..Len(batched(oe_coordinates, OpenElevationBatchSize)) -> OpenElevationOutcomes] :
          LET r == get_elevation_open_elevation(oe_coordinates, OpenElevationBatchSize, outcomes) IN
          /\ oe_elevations' = r.elevations
          /\ oe_requests' = r.requests
          /\ oe_outcomes' = outcomes
    /\ oe_pc' = "returned"
    /\ UNCHANGED oe_coordinates

(***************************************************************************)
(* enhance_elevation.py: ElevationProcessor.validate_elevation_data        *)
(* A float is a whole number of tenths with at most FloatDigits            *)
(* significant decimal digits; every arithmetic operation rounds its exact *)
(* result to the nearest float, ties to the even one.                      *)
(***************************************************************************)
RECURSIVE Pow10(_)
Pow10(k) == IF k = 0 THEN 1 ELSE 10 * Pow10(k - 1)

\* The spacing of the floats around a / d: the least power of ten u with
\* a / d < u * 10^FloatDigits.
RECURSIVE float_unit(_, _, _)
float_unit(a, d, u) == IF a < d * u * Pow10(FloatDigits) THEN u ELSE float_unit(a, d, 10 * u)

\* a / m rounded to the nearest whole number, ties to even.
round_half_even(a, m) ==
    LET q == a \div m
        r == a % m
    IN  IF 2 * r > m \/ (2 * r = m /\ q % 2 = 1) THEN q + 1 ELSE q

\* The float nearest to n / d.
float_of(n, d) ==
    LET a == Abs(n)
        u == float_unit(a, d, 1)
        rounded == u * round_half_even(a, d * u)
    IN  IF n < 0 THEN 0 - rounded ELSE rounded

float_add(x, y) == float_of(x + y, 1)

float_sub(x, y) == float_of(x - y, 1)

float_div(x, n) == float_of(x, n)

\* sum(valid_elevations): before Python 3.12 one rounded addition after the
\* other ("sequential"); from 3.12 on a compensated sum, which gives the
\* float nearest to the exact sum ("compensated").
RECURSIVE sequential_sum(_, _)
sequential_sum(total, values) ==
    IF values = <<>> THEN total
    ELSE sequential_sum(float_add(total, Head(values)), Tail(values))

RECURSIVE exact_sum(_)
exact_sum(values) == IF values = <<>> THEN 0 ELSE Head(values) + exact_sum(Tail(values))

Summations == {"sequential", "compensated"}

float_sum(values, summation) ==
    IF summation = "sequential" THEN sequential_sum(0, values) ELSE float_of(exact_sum(values), 1)

\* [e for e in elevations if e is not None]
valid_elevations_of(elevations) ==
    LET present == SelectSeq(elevations, LAMBDA e : e # None) IN
    [k \in 1..Len(present) |-> Val(present[k])]

seq_min(values) == CHOOSE v \in {values[k] : k \in 1..Len(values)} : \A k \in 1..Len(values) : v <= values[k]

seq_max(values) == CHOOSE v \in {values[k] : k \in 1..Len(values)} : \A k \in 1..Len(values) : v >= values[k]

\* The thresholds of the code, in tenths of a metre: -500, 9000 and 500.
LowestElevation == 0 - 5000
HighestElevation == 90000
LargeChange == 5000

\* Mutant of out_of_range: only the lower threshold is tested.
out_of_range_below_only(stats) == stats.min_elevation < LowestElevation

\* if stats['min_elevation'] < -500 or stats['max_elevation'] > 9000
out_of_range(stats) == stats.min_elevation < LowestElevation \/ stats.max_elevation > HighestElevation

\* The loop over range(1, len(elevations)) counting abs(change) > 500.
large_changes_of(elevations) ==
    Cardinality({i \in 2..Len(elevations) :
        /\ elevations[i] # None
        /\ elevations[i - 1] # None
        /\ Abs(float_sub(Val(elevations[i]), Val(elevations[i - 1]))) > LargeChange})

\* if large_changes > len(elevations) * 0.1: the float len * 0.1 is the
\* nearest float to a tenth of len, so the test is 10 * large_changes > len.
too_many_large_changes(large_changes, elevations) == 10 * large_changes > Len(elevations)

\* The whole call.  stats is None where the dictionary has no 'stats'.
validate_elevation_data(elevations, coordinates, summation) ==
    IF elevations = <<>> \/ Len(elevations) # coordinates
    THEN [valid |-> FALSE, reason |-> "Invalid data length", stats |-> None]
    ELSE LET valid_elevations == valid_elevations_of(elevations) IN
         IF valid_elevations = <<>>
         THEN [valid |-> FALSE, reason |-> "No valid elevation data", stats |-> None]
         ELSE LET stats == [min_elevation |-> seq_min(valid_elevations),
                            max_elevation |-> seq_max(valid_elevations),
                            elevation_range |-> float_sub(seq_max(valid_elevations), seq_min(valid_elevations)),
                            mean_elevation |-> float_div(float_sum(valid_elevations, summation), Len(valid_elevations)),
                            valid_points |-> Len(valid_elevations),
                            total_points |-> Len(elevations),
                            data_completeness |-> float_of(10 * Len(valid_elevations), Len(elevations))]
              IN  IF out_of_range(stats)
                  THEN [valid |-> FALSE, reason |-> "Elevation values out of reasonable range", stats |-> Some(stats)]
                  ELSE IF too_many_large_changes(large_changes_of(elevations), elevations)
                  THEN [valid |-> FALSE, reason |-> "Too many large elevation changes", stats |-> Some(stats)]
                  ELSE [valid |-> TRUE, reason |-> "", stats |-> Some(stats)]

\* The highest float below 10^FloatDigits metres, in tenths.
AllNines == 10 * (Pow10(FloatDigits) - 1)

ElevationValues == {None, Some(0 - 5100), Some(0 - 5000), Some(0), Some(AllNines), Some(6000), Some(90000), Some(91000)}

\* A list of elevations: a few chosen freely, then perhaps a flat tail.
ElevationLists ==
    {IF tail /\ head # <<>> THEN head \o [k \in 1..FlatTail |-> head[Len(head)]] ELSE head :
        head \in SeqsUpTo(ElevationValues, MaxElevations), tail \in BOOLEAN}

ValidateElevationInit ==
    /\ vd_elevations \in ElevationLists
    /\ vd_coordinates \in {Len(vd_elevations), Len(vd_elevations) + 1}
    /\ vd_summation \in Summations
    /\ vd_result = None
    /\ vd_pc = "pending"

ValidateElevationIdle ==
    /\ vd_elevations = <<>>
    /\ vd_coordinates = 0
    /\ vd_summation = "sequential"
    /\ vd_result = None
    /\ vd_pc = "idle"

ValidateElevationData ==
    /\ vd_pc = "pending"
    /\ vd_result' = Some(validate_elevation_data(vd_elevations, vd_coordinates, vd_summation))
    /\ vd_pc' = "returned"
    /\ UNCHANGED <<vd_elevations, vd_coordinates, vd_summation>>

(***************************************************************************)
(* enhance_elevation.py: ElevationProcessor.process_gpx_elevation          *)
(* A track is a sequence of segments, a segment a sequence of points; the  *)
(* elevation of a point is "recorded" as parsed and "smoothed" once the    *)
(* loop has assigned it.                                                   *)
(***************************************************************************)
\* get_elevation_usgs: one request per coordinate, None where it fails.
get_elevation_usgs(coordinates, outcomes) ==
    [k \in 1..Len(coordinates) |->
        IF outcomes[((k - 1) % Len(outcomes)) + 1] = "ok"
        THEN Some(Terrain(coordinates[k][1], coordinates[k][2])) ELSE None]

\* _interpolate_missing_elevations followed by smooth_elevation_data: a list
\* as long as the elevations (numpy's filters keep the length).
smoothed_elevations_of(elevations) == [k \in 1..Len(elevations) |-> "smoothed"]

\* for i, point in enumerate(segment.points):
\*     if i < len(smoothed_elevations): point.elevation = smoothed_elevations[i]
update_points(points, smoothed_elevations) ==
    [i \in 1..Len(points) |->
        IF i <= Len(smoothed_elevations)
        THEN [points[i] EXCEPT !.elevation = smoothed_elevations[i]]
        ELSE points[i]]

\* The body of the loop for segment s of track t, which has points.
process_segment(st, t, s, api, outcomes) ==
    LET points == st.tracks[t][s]
        coordinates == [k \in 1..Len(points) |-> <<points[k].latitude, points[k].longitude>>]
        elevations == IF api = "open_elevation"
                      THEN get_elevation_open_elevation(coordinates, OpenElevationBatchSize, outcomes).elevations
                      ELSE get_elevation_usgs(coordinates, outcomes)
        validation == validate_elevation_data(elevations, Len(coordinates), "sequential")
        stats == Append(st.results.elevation_stats,
                        [track |-> t - 1, segment |-> s - 1, valid |-> validation.valid, reason |-> validation.reason])
        smooth == elevations # <<>> /\ \E k \in 1..Len(elevations) : elevations[k] # None
    IN  [tracks |-> IF smooth
                    THEN [st.tracks EXCEPT ![t][s] = update_points(points, smoothed_elevations_of(elevations))]
                    ELSE st.tracks,
         results |-> [st.results EXCEPT
                         !.elevation_stats = stats,
                         !.points_processed = IF smooth THEN @ + Len(points) ELSE @,
                         !.tracks_processed = @ + 1]]

\* for track in gpx.tracks: for segment in track.segments: from segment s of
\* track t on; an unknown api returns at the first segment that has points.
RECURSIVE process_from(_, _, _, _, _)
process_from(st, t, s, api, outcomes) ==
    IF t > Len(st.tracks) THEN st
    ELSE IF s > Len(st.tracks[t]) THEN process_from(st, t + 1, 1, api, outcomes)
    ELSE IF st.tracks[t][s] = <<>> THEN process_from(st, t, s + 1, api, outcomes)
    ELSE IF api \notin {"open_elevation", "usgs"}
         THEN [st EXCEPT !.results = [success |-> FALSE, reason |-> "Unknown API", tracks_processed |-> 0,
                                      points_processed |-> 0, elevation_stats |-> <<>>]]
    ELSE process_from(process_segment(st, t, s, api, outcomes), t, s + 1, api, outcomes)

\* The whole call: results, and the tracks written to output_path (None when
\* the call returns before writing).
process_gpx_elevation(tracks, api, outcomes) ==
    IF tracks = <<>>
    THEN [results |-> [success |-> FALSE, reason |-> "No tracks found in GPX file", tracks_processed |-> 0,
                       points_processed |-> 0, elevation_stats |-> <<>>],
          output |-> None]
    ELSE LET st == process_from([tracks |-> tracks,
                                 results |-> [success |-> TRUE, reason |-> "", tracks_processed |-> 0,
                                              points_processed |-> 0, elevation_stats |-> <<>>]],
                                1, 1, api, outcomes)
         IN  [results |-> st.results, output |-> IF st.results.success THEN Some(st.tracks) ELSE None]

\* The points of a segment as parsed.
ElevationPoints(n) == [k \in 1..n |-> [latitude |-> Coordinate(k)[1], longitude |-> Coordinate(k)[2], elevation |-> "recorded"]]

\* A segment is empty or one point longer than a batch of the service.
ElevationSegments == {ElevationPoints(0), ElevationPoints(OpenElevationBatchSize + 1)}

ElevationApis == {"open_elevation", "usgs", "other"}

ProcessElevationInit ==
    /\ pe_tracks \in SeqsUpTo(SeqsUpTo(ElevationSegments, MaxGpxSegments), MaxGpxTracks)
    /\ pe_api \in ElevationApis
    /\ pe_outcomes \in [1..2 -> {"ok", "null", "short"}]
    /\ pe_results = None
    /\ pe_output = None
    /\ pe_pc = "pending"

ProcessElevationIdle ==
    /\ pe_tracks = <<>>
    /\ pe_api = "open_elevation"
    /\ pe_outcomes = <<>>
    /\ pe_results = None
    /\ pe_output = None
    /\ pe_pc = "idle"

ProcessGpxElevation ==
    /\ pe_pc = "pending"
    /\ LET call == process_gpx_elevation(pe_tracks, pe_api, pe_outcomes) IN
        /\ pe_results' = Some(call.results)
        /\ pe_output' = call.output
    /\ pe_pc' = "returned"
    /\ UNCHANGED <<pe_tracks, pe_api, pe_outcomes>>

(***************************************************************************)
(* plot_route_from_waypoints.py: main, group_waypoints,                    *)
(* export_routes_to_gpx.  A dictionary is the sequence of its items in     *)
(* insertion order.                                                        *)
(***************************************************************************)
\* [wpt[0], wpt[1], wpt[2], wpt[3]]
first_four(wpt) == [lat |-> wpt.lat, lon |-> wpt.lon, name |-> wpt.name, symbol |-> wpt.symbol]

\* grouped[section].append(...) on a defaultdict(list)
dict_append(grouped, key, items) ==
    IF \E k \in 1..Len(grouped) : grouped[k].key = key
    THEN [k \in 1..Len(grouped) |->
            IF grouped[k].key = key THEN [grouped[k] EXCEPT !.value = @ \o items] ELSE grouped[k]]
    ELSE Append(grouped, [key |-> key, value |-> items])

\* for wpt in waypoints: from waypoint i on.
RECURSIVE group_loop(_, _, _)
group_loop(grouped, waypoints, i) ==
    IF i > Len(waypoints) THEN grouped
    ELSE group_loop(dict_append(grouped, waypoints[i].section, <<first_four(waypoints[i])>>),
                    waypoints, i + 1)

group_waypoints(waypoints) == group_loop(<<>>, waypoints, 1)

\* Mutant of gpx_waypoint: the waypoint is written without its name.
gpx_waypoint_unnamed(wpt) == [latitude |-> wpt.lat, longitude |-> wpt.lon, name |-> None, symbol |-> wpt.symbol]

\* lat, lon, name, sym = wpt[:4]
\* GPXWaypoint(latitude=lat, longitude=lon, name=name, symbol=sym)
gpx_waypoint(wpt) == [latitude |-> wpt.lat, longitude |-> wpt.lon, name |-> wpt.name, symbol |-> wpt.symbol]

\* The track point of a node.
node_point(g, u) ==
    [latitude |-> to_latlon(g.x[u], g.y[u]).lat, longitude |-> to_latlon(g.x[u], g.y[u]).lon,
     elevation |-> g.elevation[u]]

\* for u, v in zip(path[:-1], path[1:]): from pair i on; a pair without an
\* edge adds nothing (no edge of the model has a geometry).
RECURSIVE path_points(_, _, _)
path_points(g, path, i) ==
    IF i >= Len(path) THEN <<>>
    ELSE (IF <<path[i], path[i + 1]>> \in g.edges
          THEN <<node_point(g, path[i]), node_point(g, path[i + 1])>>
          ELSE <<>>) \o path_points(g, path, i + 1)

RECURSIVE route_points(_, _, _)
route_points(g, route_paths, p) ==
    IF p > Len(route_paths) THEN <<>>
    ELSE path_points(g, route_paths[p], 1) \o route_points(g, route_paths, p + 1)

\* track.name = route_name if route_name else "Unnamed Section"
track_name_of(route_name) ==
    IF route_name = None \/ route_name = Some("") THEN "Unnamed Section" ELSE Val(route_name)

\* for route_name, route_paths in routes.items(): from item r on.
RECURSIVE route_tracks(_, _, _)
route_tracks(g, routes, r) ==
    IF r > Len(routes) THEN <<>>
    ELSE (IF routes[r].value = <<>> THEN <<>>
          ELSE <<[name |-> track_name_of(routes[r].key),
                  segments |-> <<route_points(g, routes[r].value, 1)>>]>>)
         \o route_tracks(g, routes, r + 1)

\* export_routes_to_gpx: the GPX it writes and returns.
export_routes_to_gpx(g, routes, waypoints) ==
    [waypoints |-> [i \in 1..Len(waypoints) |-> gpx_waypoint(waypoints[i])],
     tracks |-> route_tracks(g, routes, 1),
     creator |-> "Running Routes Script v1.0"]

\* The sections of the input: none, and two named ones.
MainSections == {None, Some("North"), Some("South")}

\* Waypoints on node 1, on node 2, and two units away from node 1.
MainPlaces == {<<0, 0>>, <<0, 1>>, <<2, 0>>}

MainWaypoints ==
    {[lat |-> p[1], lon |-> p[2], name |-> Some(<<"WP", p[1], p[2]>>), symbol |-> None, section |-> s] :
        p \in MainPlaces, s \in MainSections}

\* Nodes 1 and 2 joined by edges, and the same nodes without an edge.
MainGraphs == {CompleteGraph({1, 2}), MkGraph({1, 2}, {}, <<>>)}

MainInit ==
    /\ graph \in MainGraphs
    /\ mp_waypoints \in SeqsUpTo(MainWaypoints, MaxMainLen)
    /\ mp_snap_threshold \in {0, 1}
    /\ mp_groups = <<>>
    /\ mp_done = 0
    /\ mp_node_ids = <<>>
    /\ mp_routes = <<>>
    /\ mp_gpx = None
    /\ mp_pc = "grouping"

MainIdle ==
    /\ mp_waypoints = <<>>
    /\ mp_snap_threshold = 0
    /\ mp_groups = <<>>
    /\ mp_done = 0
    /\ mp_node_ids = <<>>
    /\ mp_routes = <<>>
    /\ mp_gpx = None
    /\ mp_pc = "idle"

\* groups = group_waypoints(waypoints); routes = defaultdict(list)
GroupWaypoints ==
    /\ mp_pc = "grouping"
    /\ mp_groups' = group_waypoints(mp_waypoints)
    /\ mp_pc' = "routing"
    /\ UNCHANGED <<graph, mp_waypoints, mp_snap_threshold, mp_done, mp_node_ids, mp_routes, mp_gpx>>

\* One pass of for route_name, route_waypoints in groups.items().
RouteSection ==
    /\ mp_pc = "routing"
    /\ mp_done < Len(mp_groups)
    /\ LET route_name == mp_groups[mp_done + 1].key
           route_waypoints == mp_groups[mp_done + 1].value
       IN  IF Len(route_waypoints) < 2
           THEN /\ mp_node_ids' = Append(mp_node_ids, None)
                /\ mp_routes' = mp_routes
           ELSE \E nearest \in NearestChoices(graph, route_waypoints) :
                   LET node_ids == snap_waypoints_to_graph(graph, route_waypoints, mp_snap_threshold,
                                                           nearest).snapped_nodes
                   IN  /\ mp_node_ids' = Append(mp_node_ids, Some(node_ids))
                       /\ IF Len(node_ids) < 2
                          THEN mp_routes' = mp_routes
                          ELSE \E route \in calculate_paths(graph, node_ids) :
                                  mp_routes' = dict_append(mp_routes, route_name, route)
    /\ mp_done' = mp_done + 1
    /\ UNCHANGED <<graph, mp_waypoints, mp_snap_threshold, mp_groups, mp_gpx, mp_pc>>

\* export_routes_to_gpx(graph, routes, waypoints, args.output)
ExportRoutesToGpx ==
    /\ mp_pc = "routing"
    /\ mp_done = Len(mp_groups)
    /\ mp_gpx' = Some(export_routes_to_gpx(graph, mp_routes, mp_waypoints))
    /\ mp_pc' = "exported"
    /\ UNCHANGED <<graph, mp_waypoints, mp_snap_threshold, mp_groups, mp_done, mp_node_ids, mp_routes>>

(***************************************************************************)
(* strava_integration.py: StravaAPIClient.refresh_access_token             *)
(***************************************************************************)
\* not value, for a value that is None or a string.
falsy(value) == value = None \/ value = Some("")

\* if not self.refresh_token or not self.client_id or not self.client_secret
missing_credentials(refresh_token, client_id, client_secret) ==
    falsy(refresh_token) \/ falsy(client_id) \/ falsy(client_secret)

\* What requests.post, raise_for_status and response.json can give:
\*   "json"        a JSON object; a key it lacks is None here,
\*   "not json"    a body that is no JSON,
\*   "http error"  raise_for_status raises HTTPError,
\*   "no response" requests.post raises a RequestException.
TokenResponses(n) ==
    {[kind |-> "json", access_token |-> a, refresh_token |-> r] :
        a \in {None, Some(<<"access", n>>)}, r \in {None, Some(<<"refresh", n>>)}} \cup
    {[kind |-> k, access_token |-> None, refresh_token |-> None] : k \in {"not json", "http error", "no response"}}

\* The whole call.  json_error_is_request_exception: whether the error that
\* response.json() raises is a RequestException in the requests installed
\* (it is from requests 2.27 on, a plain ValueError before).
refresh_access_token(access_token, refresh_token, client_id, client_secret, response, json_error_is_request_exception) ==
    LET same(outcome, posted) == [access_token |-> access_token, refresh_token |-> refresh_token,
                                  outcome |-> outcome, posted |-> posted]
    IN  IF missing_credentials(refresh_token, client_id, client_secret) THEN same("False", FALSE)
        ELSE IF response.kind \in {"http error", "no response"} THEN same("False", TRUE)
        ELSE IF response.kind = "not json"
             THEN same(IF json_error_is_request_exception THEN "False" ELSE "ValueError", TRUE)
        ELSE IF response.access_token = None THEN same("KeyError", TRUE)
        ELSE IF response.refresh_token = None
             THEN [access_token |-> response.access_token, refresh_token |-> refresh_token,
                   outcome |-> "KeyError", posted |-> TRUE]
        ELSE [access_token |-> response.access_token, refresh_token |-> response.refresh_token,
              outcome |-> "True", posted |-> TRUE]

Credentials == {None, Some(""), Some("set")}

RefreshInit ==
    /\ rf_access_token \in {None, Some(<<"access", 0>>)}
    /\ rf_refresh_token \in {None, Some(""), Some(<<"refresh", 0>>)}
    /\ rf_client_id \in Credentials
    /\ rf_client_secret \in Credentials
    /\ rf_calls = 0
    /\ rf_posts = 0
    /\ rf_response = None
    /\ rf_outcome = "none"

RefreshIdle ==
    /\ rf_access_token = None
    /\ rf_refresh_token = None
    /\ rf_client_id = None
    /\ rf_client_secret = None
    /\ rf_calls = MaxRefreshCalls
    /\ rf_posts = 0
    /\ rf_response = None
    /\ rf_outcome = "idle"

RefreshAccessToken ==
    /\ rf_calls < MaxRefreshCalls
    /\ \E response \in TokenResponses(rf_calls + 1), json_error_is_request_exception \in BOOLEAN :
          LET r == refresh_access_token(rf_access_token, rf_refresh_token, rf_client_id, rf_client_secret,
                                        response, json_error_is_request_exception)
          IN  /\ rf_access_token' = r.access_token
              /\ rf_refresh_token' = r.refresh_token
              /\ rf_posts' = IF r.posted THEN rf_posts + 1 ELSE rf_posts
              /\ rf_response' = IF r.posted THEN Some(response) ELSE None
              /\ rf_outcome' = r.outcome
    /\ rf_calls' = rf_calls + 1
    /\ UNCHANGED <<rf_client_id, rf_client_secret>>

(***************************************************************************)
(* Specifications                                                          *)
(***************************************************************************)
InitValidate ==
    /\ ValidateInit /\ graph = EmptyGraph /\ SnapIdle /\ CostIdle /\ RouteIdle
    /\ ElevationIdle /\ DownloadIdle /\ SegmentsIdle /\ ExtractIdle /\ ParseIdle
    /\ ExportIdle /\ ImportIdle /\ StravaIdle /\ EnrichIdle /\ DeriveIdle
    /\ OpenElevationIdle /\ ValidateElevationIdle /\ ProcessElevationIdle /\ MainIdle
    /\ RefreshIdle
NextValidate ==
    ValidateWaypoints
            /\ UNCHANGED <<graph, snapVars, costVars, routeVars, elevationVars, downloadVars
                         , segmentsVars, extractVars, parseVars, exportVars, importVars
                         , stravaVars, enrichVars, deriveVars, openElevationVars
                         , validateElevationVars, processElevationVars, mainVars
                         , refreshVars>>
SpecValidate == InitValidate /\ [][NextValidate]_vars

InitSnap ==
    /\ SnapInit /\ ValidateIdle /\ CostIdle /\ RouteIdle /\ ElevationIdle /\ DownloadIdle
    /\ SegmentsIdle /\ ExtractIdle /\ ParseIdle /\ ExportIdle /\ ImportIdle /\ StravaIdle
    /\ EnrichIdle /\ DeriveIdle /\ OpenElevationIdle /\ ValidateElevationIdle
    /\ ProcessElevationIdle /\ MainIdle /\ RefreshIdle
NextSnap ==
    SnapWaypointsToGraph
            /\ UNCHANGED <<validateVars, costVars, routeVars, elevationVars, downloadVars
                         , segmentsVars, extractVars, parseVars, exportVars, importVars
                         , stravaVars, enrichVars, deriveVars, openElevationVars
                         , validateElevationVars, processElevationVars, mainVars
                         , refreshVars>>
SpecSnap == InitSnap /\ [][NextSnap]_vars

InitCost ==
    /\ CostInit /\ ValidateIdle /\ SnapIdle /\ RouteIdle /\ ElevationIdle /\ DownloadIdle
    /\ SegmentsIdle /\ ExtractIdle /\ ParseIdle /\ ExportIdle /\ ImportIdle /\ StravaIdle
    /\ EnrichIdle /\ DeriveIdle /\ OpenElevationIdle /\ ValidateElevationIdle
    /\ ProcessElevationIdle /\ MainIdle /\ RefreshIdle
NextCost ==
    AddElevationCosts
            /\ UNCHANGED <<validateVars, snapVars, routeVars, elevationVars, downloadVars
                         , segmentsVars, extractVars, parseVars, exportVars, importVars
                         , stravaVars, enrichVars, deriveVars, openElevationVars
                         , validateElevationVars, processElevationVars, mainVars
                         , refreshVars>>
SpecCost == InitCost /\ [][NextCost]_vars

InitRoute ==
    /\ RouteInit /\ ValidateIdle /\ SnapIdle /\ CostIdle /\ ElevationIdle /\ DownloadIdle
    /\ SegmentsIdle /\ ExtractIdle /\ ParseIdle /\ ExportIdle /\ ImportIdle /\ StravaIdle
    /\ EnrichIdle /\ DeriveIdle /\ OpenElevationIdle /\ ValidateElevationIdle
    /\ ProcessElevationIdle /\ MainIdle /\ RefreshIdle
NextRoute ==
    CalculatePaths
            /\ UNCHANGED <<validateVars, snapVars, costVars, elevationVars, downloadVars
                         , segmentsVars, extractVars, parseVars, exportVars, importVars
                         , stravaVars, enrichVars, deriveVars, openElevationVars
                         , validateElevationVars, processElevationVars, mainVars
                         , refreshVars>>
SpecRoute == InitRoute /\ [][NextRoute]_vars

\* main passes args.gain_penalty and args.loss_penalty, 10 and 2 unless given.
InitElevation ==
    /\ ElevationInit /\ ValidateIdle /\ SnapIdle /\ RouteIdle /\ DownloadIdle
    /\ SegmentsIdle /\ ExtractIdle /\ ParseIdle /\ ExportIdle /\ ImportIdle /\ StravaIdle
    /\ EnrichIdle /\ DeriveIdle /\ OpenElevationIdle /\ ValidateElevationIdle
    /\ ProcessElevationIdle /\ MainIdle /\ RefreshIdle /\ ec_gain_penalty = 10
    /\ ec_loss_penalty = 2 /\ ec_pc = "idle"
NextElevation ==
    \/ FetchSrtmElevations
            /\ UNCHANGED <<validateVars, snapVars, costVars, routeVars, downloadVars
                         , segmentsVars, extractVars, parseVars, exportVars, importVars
                         , stravaVars, enrichVars, deriveVars, openElevationVars
                         , validateElevationVars, processElevationVars, mainVars
                         , refreshVars>>
    \/ AddSrtmElevationToGraph
            /\ UNCHANGED <<validateVars, snapVars, costVars, routeVars, downloadVars
                         , segmentsVars, extractVars, parseVars, exportVars, importVars
                         , stravaVars, enrichVars, deriveVars, openElevationVars
                         , validateElevationVars, processElevationVars, mainVars
                         , refreshVars>>
SpecElevation == InitElevation /\ [][NextElevation]_vars

InitDownload ==
    /\ DownloadInit /\ graph = EmptyGraph /\ ValidateIdle /\ SnapIdle /\ CostIdle
    /\ RouteIdle /\ ElevationIdle /\ SegmentsIdle /\ ExtractIdle /\ ParseIdle /\ ExportIdle
    /\ ImportIdle /\ StravaIdle /\ EnrichIdle /\ DeriveIdle /\ OpenElevationIdle
    /\ ValidateElevationIdle /\ ProcessElevationIdle /\ MainIdle /\ RefreshIdle
NextDownload ==
    \/ DownloadOsmGraph
            /\ UNCHANGED <<graph, validateVars, snapVars, costVars, routeVars, elevationVars
                         , segmentsVars, extractVars, parseVars, exportVars, importVars
                         , stravaVars, enrichVars, deriveVars, openElevationVars
                         , validateElevationVars, processElevationVars, mainVars
                         , refreshVars>>
    \/ Tick
            /\ UNCHANGED <<graph, validateVars, snapVars, costVars, routeVars, elevationVars
                         , segmentsVars, extractVars, parseVars, exportVars, importVars
                         , stravaVars, enrichVars, deriveVars, openElevationVars
                         , validateElevationVars, processElevationVars, mainVars
                         , refreshVars>>
SpecDownload == InitDownload /\ [][NextDownload]_vars

InitSegments ==
    /\ SegmentsInit /\ graph = EmptyGraph /\ ValidateIdle /\ SnapIdle /\ CostIdle
    /\ RouteIdle /\ ElevationIdle /\ DownloadIdle /\ ExtractIdle /\ ParseIdle /\ ExportIdle
    /\ ImportIdle /\ StravaIdle /\ EnrichIdle /\ DeriveIdle /\ OpenElevationIdle
    /\ ValidateElevationIdle /\ ProcessElevationIdle /\ MainIdle /\ RefreshIdle
NextSegments ==
    IdentifyNewPathSegments
            /\ UNCHANGED <<graph, validateVars, snapVars, costVars, routeVars, elevationVars
                         , downloadVars, extractVars, parseVars, exportVars, importVars
                         , stravaVars, enrichVars, deriveVars, openElevationVars
                         , validateElevationVars, processElevationVars, mainVars
                         , refreshVars>>
SpecSegments == InitSegments /\ [][NextSegments]_vars

InitExtract ==
    /\ ExtractInit /\ graph = EmptyGraph /\ ValidateIdle /\ SnapIdle /\ CostIdle
    /\ RouteIdle /\ ElevationIdle /\ DownloadIdle /\ SegmentsIdle /\ ParseIdle /\ ExportIdle
    /\ ImportIdle /\ StravaIdle /\ EnrichIdle /\ DeriveIdle /\ OpenElevationIdle
    /\ ValidateElevationIdle /\ ProcessElevationIdle /\ MainIdle /\ RefreshIdle
NextExtract ==
    ExtractWaypoints
            /\ UNCHANGED <<graph, validateVars, snapVars, costVars, routeVars, elevationVars
                         , downloadVars, segmentsVars, parseVars, exportVars, importVars
                         , stravaVars, enrichVars, deriveVars, openElevationVars
                         , validateElevationVars, processElevationVars, mainVars
                         , refreshVars>>
SpecExtract == InitExtract /\ [][NextExtract]_vars

InitParse ==
    /\ ParseInit /\ graph = EmptyGraph /\ ValidateIdle /\ SnapIdle /\ CostIdle /\ RouteIdle
    /\ ElevationIdle /\ DownloadIdle /\ SegmentsIdle /\ ExtractIdle /\ ExportIdle
    /\ ImportIdle /\ StravaIdle /\ EnrichIdle /\ DeriveIdle /\ OpenElevationIdle
    /\ ValidateElevationIdle /\ ProcessElevationIdle /\ MainIdle /\ RefreshIdle
NextParse ==
    ParseGpxTracks
            /\ UNCHANGED <<graph, validateVars, snapVars, costVars, routeVars, elevationVars
                         , downloadVars, segmentsVars, extractVars, exportVars, importVars
                         , stravaVars, enrichVars, deriveVars, openElevationVars
                         , validateElevationVars, processElevationVars, mainVars
                         , refreshVars>>
SpecParse == InitParse /\ [][NextParse]_vars

InitExport ==
    /\ ExportInit /\ graph = EmptyGraph /\ ValidateIdle /\ SnapIdle /\ CostIdle /\ RouteIdle
    /\ ElevationIdle /\ DownloadIdle /\ SegmentsIdle /\ ExtractIdle /\ ParseIdle
    /\ ImportIdle /\ StravaIdle /\ EnrichIdle /\ DeriveIdle /\ OpenElevationIdle
    /\ ValidateElevationIdle /\ ProcessElevationIdle /\ MainIdle /\ RefreshIdle
NextExport ==
    ExportNewPathsToGpx
            /\ UNCHANGED <<graph, validateVars, snapVars, costVars, routeVars, elevationVars
                         , downloadVars, segmentsVars, extractVars, parseVars, importVars
                         , stravaVars, enrichVars, deriveVars, openElevationVars
                         , validateElevationVars, processElevationVars, mainVars
                         , refreshVars>>
SpecExport == InitExport /\ [][NextExport]_vars

InitImport ==
    /\ ImportInit /\ graph = EmptyGraph /\ ValidateIdle /\ SnapIdle /\ CostIdle /\ RouteIdle
    /\ ElevationIdle /\ DownloadIdle /\ SegmentsIdle /\ ExtractIdle /\ ParseIdle
    /\ ExportIdle /\ StravaIdle /\ EnrichIdle /\ DeriveIdle /\ OpenElevationIdle
    /\ ValidateElevationIdle /\ ProcessElevationIdle /\ MainIdle /\ RefreshIdle
NextImport ==
    ImportFromInfer
            /\ UNCHANGED <<graph, validateVars, snapVars, costVars, routeVars, elevationVars
                         , downloadVars, segmentsVars, extractVars, parseVars, exportVars
                         , stravaVars, enrichVars, deriveVars, openElevationVars
                         , validateElevationVars, processElevationVars, mainVars
                         , refreshVars>>
SpecImport == InitImport /\ [][NextImport]_vars

InitStrava ==
    /\ StravaInit /\ graph = EmptyGraph /\ ValidateIdle /\ SnapIdle /\ CostIdle /\ RouteIdle
    /\ ElevationIdle /\ DownloadIdle /\ SegmentsIdle /\ ExtractIdle /\ ParseIdle
    /\ ExportIdle /\ ImportIdle /\ EnrichIdle /\ DeriveIdle /\ OpenElevationIdle
    /\ ValidateElevationIdle /\ ProcessElevationIdle /\ MainIdle /\ RefreshIdle
NextStrava ==
    \/ MakeRequest
            /\ UNCHANGED <<graph, validateVars, snapVars, costVars, routeVars, elevationVars
                         , downloadVars, segmentsVars, extractVars, parseVars, exportVars
                         , importVars, enrichVars, deriveVars, openElevationVars
                         , validateElevationVars, processElevationVars, mainVars
                         , refreshVars>>
    \/ StravaTick
            /\ UNCHANGED <<graph, validateVars, snapVars, costVars, routeVars, elevationVars
                         , downloadVars, segmentsVars, extractVars, parseVars, exportVars
                         , importVars, enrichVars, deriveVars, openElevationVars
                         , validateElevationVars, processElevationVars, mainVars
                         , refreshVars>>
SpecStrava == InitStrava /\ [][NextStrava]_vars

InitEnrich ==
    /\ EnrichInit /\ graph = EmptyGraph /\ ValidateIdle /\ SnapIdle /\ CostIdle /\ RouteIdle
    /\ ElevationIdle /\ DownloadIdle /\ SegmentsIdle /\ ExtractIdle /\ ParseIdle
    /\ ExportIdle /\ ImportIdle /\ StravaIdle /\ DeriveIdle /\ OpenElevationIdle
    /\ ValidateElevationIdle /\ ProcessElevationIdle /\ MainIdle /\ RefreshIdle
NextEnrich ==
    EnrichGpxWithHillData
            /\ UNCHANGED <<graph, validateVars, snapVars, costVars, routeVars, elevationVars
                         , downloadVars, segmentsVars, extractVars, parseVars, exportVars
                         , importVars, stravaVars, deriveVars, openElevationVars
                         , validateElevationVars, processElevationVars, mainVars
                         , refreshVars>>
SpecEnrich == InitEnrich /\ [][NextEnrich]_vars

InitDerive ==
    /\ DeriveInit /\ graph = EmptyGraph /\ ValidateIdle /\ SnapIdle /\ CostIdle /\ RouteIdle
    /\ ElevationIdle /\ DownloadIdle /\ SegmentsIdle /\ ExtractIdle /\ ParseIdle
    /\ ExportIdle /\ ImportIdle /\ StravaIdle /\ EnrichIdle /\ OpenElevationIdle
    /\ ValidateElevationIdle /\ ProcessElevationIdle /\ MainIdle /\ RefreshIdle
NextDerive ==
    ExtractDerivativeFiles
            /\ UNCHANGED <<graph, validateVars, snapVars, costVars, routeVars, elevationVars
                         , downloadVars, segmentsVars, extractVars, parseVars, exportVars
                         , importVars, stravaVars, enrichVars, openElevationVars
                         , validateElevationVars, processElevationVars, mainVars
                         , refreshVars>>
SpecDerive == InitDerive /\ [][NextDerive]_vars

InitOpenElevation ==
    /\ OpenElevationInit /\ graph = EmptyGraph /\ ValidateIdle /\ SnapIdle /\ CostIdle
    /\ RouteIdle /\ ElevationIdle /\ DownloadIdle /\ SegmentsIdle /\ ExtractIdle
    /\ ParseIdle /\ ExportIdle /\ ImportIdle /\ StravaIdle /\ EnrichIdle /\ DeriveIdle
    /\ ValidateElevationIdle /\ ProcessElevationIdle /\ MainIdle /\ RefreshIdle
NextOpenElevation ==
    GetElevationOpenElevation
            /\ UNCHANGED <<graph, validateVars, snapVars, costVars, routeVars, elevationVars
                         , downloadVars, segmentsVars, extractVars, parseVars, exportVars
                         , importVars, stravaVars, enrichVars, deriveVars
                         , validateElevationVars, processElevationVars, mainVars
                         , refreshVars>>
SpecOpenElevation == InitOpenElevation /\ [][NextOpenElevation]_vars

InitValidateElevation ==
    /\ ValidateElevationInit /\ graph = EmptyGraph /\ ValidateIdle /\ SnapIdle /\ CostIdle
    /\ RouteIdle /\ ElevationIdle /\ DownloadIdle /\ SegmentsIdle /\ ExtractIdle
    /\ ParseIdle /\ ExportIdle /\ ImportIdle /\ StravaIdle /\ EnrichIdle /\ DeriveIdle
    /\ OpenElevationIdle /\ ProcessElevationIdle /\ MainIdle /\ RefreshIdle
NextValidateElevation ==
    ValidateElevationData
            /\ UNCHANGED <<graph, validateVars, snapVars, costVars, routeVars, elevationVars
                         , downloadVars, segmentsVars, extractVars, parseVars, exportVars
                         , importVars, stravaVars, enrichVars, deriveVars, openElevationVars
                         , processElevationVars, mainVars, refreshVars>>
SpecValidateElevation == InitValidateElevation /\ [][NextValidateElevation]_vars

InitProcessElevation ==
    /\ ProcessElevationInit /\ graph = EmptyGraph /\ ValidateIdle /\ SnapIdle /\ CostIdle
    /\ RouteIdle /\ ElevationIdle /\ DownloadIdle /\ SegmentsIdle /\ ExtractIdle
    /\ ParseIdle /\ ExportIdle /\ ImportIdle /\ StravaIdle /\ EnrichIdle /\ DeriveIdle
    /\ OpenElevationIdle /\ ValidateElevationIdle /\ MainIdle /\ RefreshIdle
NextProcessElevation ==
    ProcessGpxElevation
            /\ UNCHANGED <<graph, validateVars, snapVars, costVars, routeVars, elevationVars
                         , downloadVars, segmentsVars, extractVars, parseVars, exportVars
                         , importVars, stravaVars, enrichVars, deriveVars, openElevationVars
                         , validateElevationVars, mainVars, refreshVars>>
SpecProcessElevation == InitProcessElevation /\ [][NextProcessElevation]_vars

InitMain ==
    /\ MainInit /\ ValidateIdle /\ SnapIdle /\ CostIdle /\ RouteIdle /\ ElevationIdle
    /\ DownloadIdle /\ SegmentsIdle /\ ExtractIdle /\ ParseIdle /\ ExportIdle /\ ImportIdle
    /\ StravaIdle /\ EnrichIdle /\ DeriveIdle /\ OpenElevationIdle /\ ValidateElevationIdle
    /\ ProcessElevationIdle /\ RefreshIdle
NextMain ==
    \/ GroupWaypoints
            /\ UNCHANGED <<validateVars, snapVars, costVars, routeVars, elevationVars
                         , downloadVars, segmentsVars, extractVars, parseVars, exportVars
                         , importVars, stravaVars, enrichVars, deriveVars, openElevationVars
                         , validateElevationVars, processElevationVars, refreshVars>>
    \/ RouteSection
            /\ UNCHANGED <<validateVars, snapVars, costVars, routeVars, elevationVars
                         , downloadVars, segmentsVars, extractVars, parseVars, exportVars
                         , importVars, stravaVars, enrichVars, deriveVars, openElevationVars
                         , validateElevationVars, processElevationVars, refreshVars>>
    \/ ExportRoutesToGpx
            /\ UNCHANGED <<validateVars, snapVars, costVars, routeVars, elevationVars
                         , downloadVars, segmentsVars, extractVars, parseVars, exportVars
                         , importVars, stravaVars, enrichVars, deriveVars, openElevationVars
                         , validateElevationVars, processElevationVars, refreshVars>>
SpecMain == InitMain /\ [][NextMain]_vars

InitRefresh ==
    /\ RefreshInit /\ graph = EmptyGraph /\ ValidateIdle /\ SnapIdle /\ CostIdle
    /\ RouteIdle /\ ElevationIdle /\ DownloadIdle /\ SegmentsIdle /\ ExtractIdle
    /\ ParseIdle /\ ExportIdle /\ ImportIdle /\ StravaIdle /\ EnrichIdle /\ DeriveIdle
    /\ OpenElevationIdle /\ ValidateElevationIdle /\ ProcessElevationIdle /\ MainIdle
NextRefresh ==
    RefreshAccessToken
            /\ UNCHANGED <<graph, validateVars, snapVars, costVars, routeVars, elevationVars
                         , downloadVars, segmentsVars, extractVars, parseVars, exportVars
                         , importVars, stravaVars, enrichVars, deriveVars, openElevationVars
                         , validateElevationVars, processElevationVars, mainVars>>
SpecRefresh == InitRefresh /\ [][NextRefresh]_vars

(***************************************************************************)
(* Claims                                                                  *)
(***************************************************************************)
SomeMissing(waypoints) ==
    \E i \in 1..Len(waypoints) : IsNone(waypoints[i].lat) \/ IsNone(waypoints[i].lon)

SomePairFartherThan(waypoints, d) ==
    \E i \in 1..(Len(waypoints) - 1) : haversine_km(waypoints[i], waypoints[i + 1]) > d

SomePairExactly(waypoints, d) ==
    \E i \in 1..(Len(waypoints) - 1) : haversine_km(waypoints[i], waypoints[i + 1]) = d

\* C1: validate_waypoints ends the program with exit status 1 if and only if a
\* waypoint lacks its latitude or longitude, or there are more waypoints than
\* max_waypoints, or two consecutive waypoints are farther apart than
\* max_distance; in every other case (an empty list, one waypoint, a distance
\* equal to the limit) it returns normally.
C1_ValidateExitIff ==
    vw_outcome # "pending" =>
        /\ vw_outcome \in {"exit1", "returned"}
        /\ (vw_outcome = "exit1") <=>
              \/ SomeMissing(vw_waypoints)
              \/ Len(vw_waypoints) > vw_max_waypoints
              \/ SomePairFartherThan(vw_waypoints, vw_max_distance)

\* A call that returned although one leg is exactly as long as the limit.
C1_Witness ==
    /\ vw_outcome = "returned"
    /\ Len(vw_waypoints) >= 2
    /\ SomePairExactly(vw_waypoints, vw_max_distance)
\* Distance from a waypoint to the graph node nearest to it.
NearestDistance(g, wpt) ==
    LET p == project_point(wpt)
        n == CHOOSE n \in nearest_nodes(g, p.x, p.y) : TRUE
    IN  NodeDistance(g, n, p.x, p.y)

WithinThreshold(wpt) == NearestDistance(graph, wpt) <= sn_snap_threshold

C3_SnapInsertsNode ==
    [][(sn_pc = "pending" /\ sn_pc' = "done") =>
          \A i \in 1..Len(sn_snapped_nodes') :
              /\ sn_snapped_nodes'[i] \notin graph.nodes
              /\ sn_snapped_nodes'[i] \in graph'.nodes
              /\ Cardinality(graph'.edges) > Cardinality(graph.edges)]_vars
\* The nodes that can be reached from node a along edges of g.
RECURSIVE ReachableFrom(_, _)
ReachableFrom(g, seen) ==
    LET more == seen \cup {e[2] : e \in {d \in g.edges : d[1] \in seen}} IN
    IF more = seen THEN seen ELSE ReachableFrom(g, more)

HasPath(g, a, b) == b \in ReachableFrom(g, {a})

FollowsEdges(g, p) == \A k \in 1..(Len(p) - 1) : <<p[k], p[k + 1]>> \in g.edges

\* C4: calculate_paths returns len(node_ids) - 1 paths (none for fewer than two
\* node ids), in order; path i starts at node_ids[i] and ends at
\* node_ids[i+1], so consecutive paths share their junction node.
C4_OnePathPerPair ==
    rt_pc = "done" =>
        /\ Len(rt_paths) = Max2(0, Len(rt_node_ids) - 1)
        /\ \A i \in 1..Len(rt_paths) :
              /\ Len(rt_paths[i]) >= 1
              /\ rt_paths[i][1] = rt_node_ids[i]
              /\ rt_paths[i][Len(rt_paths[i])] = rt_node_ids[i + 1]
        /\ \A i \in 1..(Len(rt_paths) - 1) :
              rt_paths[i][Len(rt_paths[i])] = rt_paths[i + 1][1]

\* Two paths were returned, the first of them through a third node.
C4_Witness ==
    /\ rt_pc = "done"
    /\ Len(rt_node_ids) = 3
    /\ Len(rt_paths) = 2
    /\ Len(rt_paths[1]) = 3
    /\ FollowsEdges(graph, rt_paths[1])

\* C5: when the graph has no path from node_ids[i] to node_ids[i+1], the call
\* does not fail: position i holds the fallback [node_ids[i], node_ids[i+1]]
\* and every later pair is routed as usual.
C5_FallbackAndGoOn ==
    rt_pc = "done" =>
        \A i \in 1..(Len(rt_node_ids) - 1) :
            ~HasPath(graph, rt_node_ids[i], rt_node_ids[i + 1]) =>
                /\ i \in DOMAIN rt_paths
                /\ rt_paths[i] = <<rt_node_ids[i], rt_node_ids[i + 1]>>
                /\ \A j \in (i + 1)..(Len(rt_node_ids) - 1) :
                      /\ j \in DOMAIN rt_paths
                      /\ HasPath(graph, rt_node_ids[j], rt_node_ids[j + 1])
                            => FollowsEdges(graph, rt_paths[j])

\* The first pair had no path and got the fallback, the second pair was routed.
C5_Witness ==
    /\ rt_pc = "done"
    /\ Len(rt_node_ids) = 3
    /\ ~HasPath(graph, rt_node_ids[1], rt_node_ids[2])
    /\ rt_paths[1] = <<rt_node_ids[1], rt_node_ids[2]>>
    /\ HasPath(graph, rt_node_ids[2], rt_node_ids[3])
    /\ rt_node_ids[2] # rt_node_ids[3]
    /\ FollowsEdges(graph, rt_paths[2])

\* C6: after add_elevation_costs every edge (u, v) has elevation_gain =
\* max(0, elev(v) - elev(u)), elevation_loss = max(0, elev(u) - elev(v)) and
\* cost = length + gain_penalty * gain + loss_penalty * loss; gain and loss are
\* never negative and never both non-zero, both are 0 when an endpoint has no
\* elevation, and cost >= length.
C6_ElevationCosts ==
    ec_pc = "done" =>
        \A e \in graph.edges :
            LET eu == graph.elevation[e[1]]
                ev == graph.elevation[e[2]]
                gain == Val(graph.elevation_gain[e])
                loss == Val(graph.elevation_loss[e])
                length == Val(graph.length[e])
                cost == Val(graph.cost[e])
            IN  /\ ~IsNone(graph.elevation_gain[e]) /\ ~IsNone(graph.elevation_loss[e])
                /\ ~IsNone(graph.length[e]) /\ ~IsNone(graph.cost[e])
                /\ (~IsNone(eu) /\ ~IsNone(ev)) =>
                      /\ gain = (IF Val(ev) > Val(eu) THEN Val(ev) - Val(eu) ELSE 0)
                      /\ loss = (IF Val(eu) > Val(ev) THEN Val(eu) - Val(ev) ELSE 0)
                /\ (IsNone(eu) \/ IsNone(ev)) => (gain = 0 /\ loss = 0)
                /\ gain >= 0 /\ loss >= 0
                /\ (gain = 0 \/ loss = 0)
                /\ cost = length + ec_gain_penalty * gain + ec_loss_penalty * loss
                /\ cost >= length

\* An uphill edge was charged the gain penalty, and another edge has an
\* endpoint without elevation.
C6_Witness ==
    /\ ec_pc = "done"
    /\ ec_gain_penalty = 10
    /\ \E e \in graph.edges :
          /\ graph.elevation_gain[e] = Some(15)
          /\ graph.cost[e] = Some(350)
    /\ \E e \in graph.edges : IsNone(graph.elevation[e[1]])

\* C7: if fetch_srtm_elevations obtained no elevation for any node,
\* add_srtm_elevation_to_graph returns the graph unchanged, no edge carries
\* 'cost' and select_weight_attribute returns 'length'; if it obtained an
\* elevation for at least one node, add_srtm_elevation_to_graph returns a
\* graph whose every edge carries 'cost' and select_weight_attribute returns
\* 'cost'.
C7_WeightSelection ==
    [][(el_pc = "pending" /\ el_pc' \in {"annotated", "raised"}) =>
          /\ (DOMAIN el_elevations' = {}) =>
                /\ el_pc' = "annotated"
                /\ graph' = graph
                /\ \A e \in graph'.edges : IsNone(graph'.cost[e])
                /\ select_weight_attribute(graph') = "length"
          /\ (DOMAIN el_elevations' # {}) =>
                /\ el_pc' = "annotated"
                /\ \A e \in graph'.edges : ~IsNone(graph'.cost[e])
                /\ select_weight_attribute(graph') = "cost"]_vars

\* The nodes a call asks for: the list given, all nodes of the graph when no
\* list (or an empty one) is given.
RequestedNodes == nodes_or_all(graph, el_nodes)

AllRequestedCached ==
    /\ el_cache_file.state = "valid"
    /\ \A n \in RequestedNodes : coord_key(graph, n) \in DOMAIN el_cache_file.data

\* C8: when the rounded 'lat,lon' key of every requested node is in the cache
\* file, fetch_srtm_elevations makes no request, does not write the cache file
\* and returns the cached elevation of every requested node.
C8_WarmCacheNoRequest ==
    [][(el_pc = "pending" /\ el_pc' = "fetched" /\ AllRequestedCached) =>
          /\ el_requests' = <<>>
          /\ el_save_calls' = 0
          /\ el_cache_file' = el_cache_file
          /\ DOMAIN el_elevations' = RequestedNodes
          /\ \A n \in RequestedNodes :
                el_elevations'[n] = el_cache_file.data[coord_key(graph, n)]]_vars

\* A call for two nodes with different keys that was answered from the file.
C8_Witness ==
    /\ el_pc = "fetched"
    /\ el_requests = <<>>
    /\ el_save_calls = 0
    /\ \E n, m \in DOMAIN el_elevations : coord_key(graph, n) # coord_key(graph, m)
    /\ AllRequestedCached

\* C9: with OPENTOPO_API_KEY set and elevations missing from the cache, the
\* elevation request goes through requests.get with the parameter API_Key set
\* to the variable's value, and the mapping returned is not empty.
C9_RequestCarriesApiKey ==
    (el_pc = "fetched" /\ ~IsNone(el_api_key_env) /\ el_requests # <<>>) =>
        /\ \A i \in 1..Len(el_requests) :
              /\ el_requests[i].method = "get"
              /\ <<"API_Key", Val(el_api_key_env)>> \in el_requests[i].params
        /\ DOMAIN el_elevations # {}
\* The last call found its cache file, was not told to refresh, and the file
\* was not older than max_cache_age_days.
CacheUsable(call) ==
    /\ call.found
    /\ ~call.force_refresh
    /\ Val(call.file_age) <= 2 * call.max_cache_age_days

CallReturns == dl_calls' = dl_calls + 1

\* The call read the graph of its cache file and did not download.
ServedFromCache ==
    /\ ~dl_call'.downloaded
    /\ ~IsNone(dl_call'.cache_file)
    /\ Val(dl_call'.cache_file) \in DOMAIN dl_files
    /\ dl_result' = dl_files[Val(dl_call'.cache_file)].graph
    /\ dl_files' = dl_files

\* The call downloaded the graph and wrote it to its cache file.
DownloadedAndWritten ==
    /\ dl_call'.downloaded
    /\ dl_result' = OsmGraph(dl_call'.bbox, dl_now)
    /\ ~IsNone(dl_call'.cache_file)
    /\ Val(dl_call'.cache_file) \in DOMAIN dl_files'
    /\ dl_files'[Val(dl_call'.cache_file)] = [ctime |-> dl_now, graph |-> dl_result']

SameBoxSameFile ==
    \A a, b \in dl_used : (a[1] = b[1] /\ a[2] = b[2]) => a[3] = b[3]

MaximalRuns ==
    {r \in (1..Len(sg_distances)) \X (1..Len(sg_distances)) :
        /\ r[1] <= r[2]
        /\ \A k \in r[1]..r[2] : sg_distances[k] > sg_tolerance
        /\ (r[1] = 1 \/ sg_distances[r[1] - 1] <= sg_tolerance)
        /\ (r[2] = Len(sg_distances) \/ sg_distances[r[2] + 1] <= sg_tolerance)
        /\ r[2] - r[1] + 1 >= sg_min_segment_length}

\* The track points of all segments returned, in the order returned.
RECURSIVE Flatten(_)
Flatten(segments) ==
    IF segments = <<>> THEN <<>> ELSE Head(segments) \o Flatten(Tail(segments))

\* The segments returned are exactly the maximal runs, in track order.
SegmentsAreTheMaximalRuns ==
    /\ Len(sg_new_segments) = Cardinality(MaximalRuns)
    /\ \A r \in MaximalRuns :
          \E j \in 1..Len(sg_new_segments) :
              /\ sg_new_segments[j] = SubSeq(sg_track_points, r[1], r[2])
              /\ j = Cardinality({q \in MaximalRuns : q[1] <= r[1]})

\* C11: identify_new_path_segments returns, in track order, exactly the
\* maximal runs of consecutive track points whose distance is strictly greater
\* than tolerance and whose length is at least min_segment_length, a run that
\* reaches the end of the track included; a point within the tolerance is in
\* no segment and no point appears twice.
C11_SegmentsAreMaximalRuns ==
    sg_pc = "done" =>
        /\ SegmentsAreTheMaximalRuns
        /\ \A i \in 1..Len(sg_track_points) :
              sg_distances[i] <= sg_tolerance =>
                  \A j \in 1..Len(sg_new_segments) :
                      \A k \in 1..Len(sg_new_segments[j]) :
                          sg_new_segments[j][k] # sg_track_points[i]
        /\ IsInjective(Flatten(sg_new_segments))

\* C12: extract_waypoints, given the path of a GPX file, returns one tuple per
\* waypoint of the file, in file order, holding its latitude, longitude, name
\* and symbol (name or symbol absent when the file has none), an empty list for
\* a file without waypoints, and ends the program with SystemExit when the
\* file is missing or is not parseable GPX.
C12_ExtractReturnsFileWaypoints ==
    xw_outcome \notin {"pending", "idle"} =>
        IF xw_file.state \in {"missing", "invalid"}
        THEN xw_outcome = "SystemExit"
        ELSE /\ xw_outcome = "returned"
             /\ Len(xw_result) = Len(xw_file.waypoints)
             /\ \A i \in 1..Len(xw_result) :
                   /\ xw_result[i].lat = Some(xw_file.waypoints[i].latitude)
                   /\ xw_result[i].lon = Some(xw_file.waypoints[i].longitude)
                   /\ xw_result[i].name = xw_file.waypoints[i].name
                   /\ xw_result[i].symbol = xw_file.waypoints[i].symbol

\* The places of the track points of the file: track, segment, position.
PointPlaces ==
    {pl \in (1..Len(pt_file.tracks)) \X (1..2) \X (1..MaxSegmentPoints) :
        /\ pl[2] <= Len(pt_file.tracks[pl[1]])
        /\ pl[3] <= Len(pt_file.tracks[pl[1]][pl[2]])}

\* a comes before b in file order, or is b.
PlaceBefore(a, b) ==
    \/ a[1] < b[1]
    \/ a[1] = b[1] /\ a[2] < b[2]
    \/ a[1] = b[1] /\ a[2] = b[2] /\ a[3] <= b[3]

\* C13: parse_gpx_tracks returns the (latitude, longitude) of every track point
\* of every segment of every track, in file order, nothing dropped or repeated,
\* and ends the program with exit status 1, never with an empty list, when the
\* file has no track points or cannot be read or parsed.
C13_ParseReturnsAllTrackPoints ==
    pt_outcome \notin {"pending", "idle"} =>
        IF pt_file.state # "valid" \/ PointPlaces = {}
        THEN pt_outcome = "exit1"
        ELSE /\ pt_outcome = "returned"
             /\ Len(pt_track_points) = Cardinality(PointPlaces)
             /\ \A pl \in PointPlaces :
                   LET k == Cardinality({q \in PointPlaces : PlaceBefore(q, pl)})
                       point == pt_file.tracks[pl[1]][pl[2]][pl[3]]
                   IN  pt_track_points[k] = <<point.latitude, point.longitude>>

\* Two tracks, an empty segment among the segments, and three or more points returned.
C13_Witness ==
    /\ pt_outcome = "returned"
    /\ Len(pt_file.tracks) = 2
    /\ \E t \in 1..2 : \E s \in 1..Len(pt_file.tracks[t]) : pt_file.tracks[t][s] = <<>>
    /\ Len(pt_track_points) >= 3
    /\ \E i, j \in 1..Len(pt_track_points) : pt_track_points[i] # pt_track_points[j]

\* C14: export_new_paths_to_gpx writes one track per new segment, named
\* 'New Path Segment i' with i counting from 1 in segment order, each track
\* holding a single track segment with that segment's points in order, and
\* returns True; when the file cannot be written it returns False and does
\* not raise.
C14_ExportWritesOneTrackPerSegment ==
    ex_outcome \notin {"pending", "idle"} =>
        /\ ex_outcome = "returned"
        /\ IF ex_writable
           THEN /\ ex_result = Some(TRUE)
                /\ ex_file # None
                /\ Len(Val(ex_file).tracks) = Len(ex_new_segments)
                /\ \A j \in 1..Len(ex_new_segments) :
                      LET track == Val(ex_file).tracks[j] IN
                      /\ track.name = <<"New Path Segment", j>>
                      /\ Len(track.segments) = 1
                      /\ Len(track.segments[1]) = Len(ex_new_segments[j])
                      /\ \A k \in 1..Len(ex_new_segments[j]) :
                            /\ track.segments[1][k].latitude = ex_new_segments[j][k][1]
                            /\ track.segments[1][k].longitude = ex_new_segments[j][k][2]
           ELSE ex_result = Some(FALSE)

\* Two different segments of two different points each were written.
C14_Witness ==
    /\ ex_outcome = "returned"
    /\ ex_result = Some(TRUE)
    /\ Len(ex_new_segments) = 2
    /\ ex_new_segments[1] # ex_new_segments[2]
    /\ Len(ex_new_segments[1]) = 2
    /\ ex_new_segments[1][1] # ex_new_segments[1][2]
    /\ Len(Val(ex_file).tracks) = 2

\* C15: infer_new_paths_from_gpx provides export_new_paths_to_osm (which writes
\* OSM 0.6 XML with nodes -1, -2, ... and one way per segment and returns
\* True): an import that asks the module for that name succeeds.
C15_ModuleProvidesOsmExport ==
    (im_outcome \notin {"pending", "idle"} /\ "export_new_paths_to_osm" \in im_names) =>
        im_outcome = "imported"

\* The HTTP requests issued inside the window that ends at reset_time.
RequestsInWindow(limit, length) ==
    Cardinality({i \in 1..Len(sv_http_log) :
        sv_http_log[i] >= limit.reset_time - length /\ sv_http_log[i] < limit.reset_time})

\* C16: over any sequence of _make_request calls whose responses carry no
\* X-RateLimit-Usage header, the HTTP requests issued inside one short window
\* never exceed the short limit and those inside one daily window never exceed
\* the daily limit; a counter goes back to 0 only when the current time has
\* reached the window's reset_time, and a new window then starts at the
\* current time.
C16_RateLimitCompliance ==
    [][~sv_usage_seen' =>
        /\ RequestsInWindow(sv_rate_limit_short, ShortWindow)' <= ShortLimit
        /\ RequestsInWindow(sv_rate_limit_daily, DailyWindow)' <= DailyLimit
        /\ (sv_rate_limit_short.requests > 0 /\ sv_rate_limit_short'.requests = 0) =>
              /\ sv_clock >= sv_rate_limit_short.reset_time
              /\ sv_rate_limit_short'.reset_time = sv_clock + ShortWindow
        /\ (sv_rate_limit_daily.requests > 0 /\ sv_rate_limit_daily'.requests = 0) =>
              /\ sv_clock >= sv_rate_limit_daily.reset_time
              /\ sv_rate_limit_daily'.reset_time = sv_clock + DailyWindow]_vars

\* A step of _make_request (the clock stands still during a call).
MakeRequestStep == sv_clock' = sv_clock /\ sv_last' # NoRequest

\* The step called requests.get.
HttpRequestIssued == Len(sv_http_log') > Len(sv_http_log)

\* The cache holds a readable entry for the key that is no older than cache_ttl.
ValidCacheEntry(cache_key, cache_ttl) ==
    /\ sv_cache[cache_key] # None
    /\ Val(sv_cache[cache_key]).json
    /\ sv_clock - Val(sv_cache[cache_key]).mtime <= cache_ttl

\* A window that has not run out has its limit used up.
RateLimitReached ==
    \/ sv_clock < sv_rate_limit_short.reset_time /\ sv_rate_limit_short.requests >= ShortLimit
    \/ sv_clock < sv_rate_limit_daily.reset_time /\ sv_rate_limit_daily.requests >= DailyLimit

\* C17: _make_request issues no HTTP request when there is no access token (it
\* returns None), when the cache holds a still-valid entry for the endpoint
\* and parameters (it returns the cached data), or when a rate limit is
\* reached (it returns None); the token check comes before the cache lookup
\* and the cache lookup before the rate-limit check.
C17_NoRequestWithoutTokenOnHitOrAtLimit ==
    [][MakeRequestStep =>
        LET call == sv_last'
            hit == call.use_cache /\ ValidCacheEntry(call.cache_key, call.cache_ttl)
        IN  /\ ~sv_access_token => (~HttpRequestIssued /\ call.returned = None)
            /\ (sv_access_token /\ hit) =>
                  /\ ~HttpRequestIssued
                  /\ call.returned = Some(Val(sv_cache[call.cache_key]).content)
            /\ (sv_access_token /\ ~hit /\ RateLimitReached) =>
                  (~HttpRequestIssued /\ call.returned = None)]_vars

\* The number a waypoint's rr:dobih_number extension gives: its text, apart
\* from white space around it, is all digits.
HasDobihNumber(waypoint) ==
    /\ waypoint.extensions.kind = "dobih"
    /\ waypoint.extensions.text # None
    /\ LET text == strip(Val(waypoint.extensions.text)) IN
          text # <<>> /\ \A k \in 1..Len(text) : text[k] \in Digits

DobihNumber(waypoint) == int(strip(Val(waypoint.extensions.text)))

\* The rows of the hill table a waypoint is to be matched with.
HillsOf(waypoint) ==
    IF waypoint.symbol = Some("Summit") /\ HasDobihNumber(waypoint)
    THEN {k \in 1..Len(en_hill_df) : en_hill_df[k].Number = DobihNumber(waypoint)}
    ELSE {}

SameFourFields(a, b) ==
    /\ a.latitude = b.latitude
    /\ a.longitude = b.longitude
    /\ a.elevation = b.elevation
    /\ a.name = b.name

\* C18: enrich_gpx_with_hill_data changes a waypoint's latitude, longitude,
\* elevation and name only when its symbol is exactly 'Summit' and its
\* rr:dobih_number is all digits and equals the Number of a hill of the table,
\* and then sets the four fields from that hill's row; every other waypoint
\* is written to the output with those fields unchanged.
C18_MatchOnDobihNumberOnly ==
    en_outcome \notin {"pending", "idle"} =>
        /\ en_outcome = "written"
        /\ en_output # None
        /\ Len(Val(en_output)) = Len(en_waypoints)
        /\ \A i \in 1..Len(en_waypoints) :
              LET before == en_waypoints[i]
                  after == Val(en_output)[i]
              IN  /\ after.symbol = before.symbol
                  /\ after.extensions = before.extensions
                  /\ IF HillsOf(before) = {}
                     THEN SameFourFields(after, before)
                     ELSE \E k \in HillsOf(before) :
                             /\ after.latitude = en_hill_df[k].Latitude
                             /\ after.longitude = en_hill_df[k].Longitude
                             /\ after.elevation = Some(en_hill_df[k].Metres)
                             /\ after.name = Some(en_hill_df[k].Name)

\* C19: after enrich_gpx_with_hill_data every Summit waypoint counted as
\* updated carries in the output an rr:dobih_number extension whose number
\* equals the Number of the hill its fields were taken from.
C19_UpdatedCarryDobihNumber ==
    en_outcome = "written" =>
        /\ en_updated = Cardinality({i \in 1..Len(en_waypoints) : en_matched[i] # None})
        /\ \A i \in 1..Len(en_waypoints) :
              LET after == Val(en_output)[i] IN
              /\ en_matched[i] # None =>
                    /\ after.symbol = Some("Summit")
                    /\ HasDobihNumber(after)
                    /\ DobihNumber(after) = Val(en_matched[i]).Number
                    /\ after.latitude = Val(en_matched[i]).Latitude
                    /\ after.longitude = Val(en_matched[i]).Longitude
                    /\ after.elevation = Some(Val(en_matched[i]).Metres)
              /\ en_matched[i] = None => SameFourFields(after, en_waypoints[i])

\* Two summits updated from two different hills, one of them by a number
\* written with a leading zero and white space.
C19_Witness ==
    /\ en_outcome = "written"
    /\ en_updated = 2
    /\ Val(en_matched[1]).Number # Val(en_matched[2]).Number
    /\ \E i \in 1..2 : Val(en_output)[i].extensions.text = Some(<<" ", "0", "1", " ">>)

\* The ids of the waypoints of a written file, in the file's order.
IdsOf(waypoints) == [k \in 1..Len(waypoints) |-> waypoints[k].id]

\* The symbol, trimmed and compared without regard to case, is 'summit'.
IsSummitSymbol(symbol) ==
    /\ symbol # None
    /\ LET text == strip(Val(symbol)) IN
          /\ Len(text) = 6
          /\ text[1] \in {"s", "S"}
          /\ text[2] \in {"u", "U"}
          /\ text[3] \in {"m", "M"}
          /\ text[4] \in {"m", "M"}
          /\ text[5] \in {"i", "I"}
          /\ text[6] \in {"t", "T"}

\* C20: the -summits file contains exactly the source waypoints whose symbol,
\* trimmed and compared case-insensitively, is 'summit', the
\* -points-of-interest file exactly all others (those without a symbol too),
\* every source waypoint is in exactly one of the two, and each file keeps the
\* source's order.
C20_SummitsAndPoiPartition ==
    gd_outcome = "written" =>
        LET summits == IdsOf(gd_files[FileName("summits")].waypoints)
            poi == IdsOf(gd_files[FileName("points-of-interest")].waypoints)
        IN  /\ summits = IdsOf(SelectSeq(gd_waypoints, LAMBDA wpt : IsSummitSymbol(wpt.symbol)))
            /\ poi = IdsOf(SelectSeq(gd_waypoints, LAMBDA wpt : ~IsSummitSymbol(wpt.symbol)))
            /\ \A k \in 1..Len(gd_waypoints) :
                  Cardinality({i \in 1..Len(summits) : summits[i] = k}) +
                  Cardinality({i \in 1..Len(poi) : poi[i] = k}) = 1

\* A summit written in capitals with white space around and a waypoint
\* without symbol, each in its file.
C20_Witness ==
    /\ gd_outcome = "written"
    /\ Len(gd_waypoints) = 2
    /\ gd_waypoints[1].symbol = None
    /\ gd_waypoints[2].symbol = Some(<<" ", "S", "U", "M", "M", "I", "T", " ">>)
    /\ IdsOf(gd_files[FileName("summits")].waypoints) = <<2>>
    /\ IdsOf(gd_files[FileName("points-of-interest")].waypoints) = <<1>>

\* All points of a source, track by track, segment by segment.
RECURSIVE ConcatAll(_)
ConcatAll(seqs) == IF seqs = <<>> THEN <<>> ELSE Head(seqs) \o ConcatAll(Tail(seqs))

SourcePoints == ConcatAll([t \in 1..Len(gd_tracks) |-> ConcatAll(gd_tracks[t])])

\* C21: for a source with n tracks extract_derivative_files writes exactly
\* 5 + n files: -summits, -points-of-interest, -track, -detailed, -simplified
\* and -leg-i for i = 1..n; leg file i contains exactly the i-th track, the
\* -track file all tracks and no waypoints, and the -simplified file a single
\* track with a single segment whose points are all points of all segments of
\* all tracks in source order.
C21_DerivativeFiles ==
    gd_outcome = "written" =>
        LET n == Len(gd_tracks) IN
        /\ DOMAIN gd_files =
              {<<"summits", 0>>, <<"points-of-interest", 0>>, <<"track", 0>>, <<"detailed", 0>>,
               <<"simplified", 0>>} \cup {<<"leg", i>> : i \in 1..n}
        /\ Cardinality(DOMAIN gd_files) = 5 + n
        /\ \A i \in 1..n :
              /\ gd_files[<<"leg", i>>].tracks = <<gd_tracks[i]>>
              /\ gd_files[<<"leg", i>>].waypoints = <<>>
        /\ gd_files[<<"track", 0>>].tracks = gd_tracks
        /\ gd_files[<<"track", 0>>].waypoints = <<>>
        /\ LET simplified == gd_files[<<"simplified", 0>>].tracks IN
              /\ Len(simplified) = 1
              /\ Len(simplified[1]) = 1
              /\ simplified[1][1] = SourcePoints
              /\ Len(simplified[1][1]) = Len(SourcePoints)

\* Two tracks, one of two segments and one with an empty segment, four
\* points in all, seven files.
C21_Witness ==
    /\ gd_outcome = "written"
    /\ Len(gd_tracks) = 2
    /\ Len(gd_tracks[1]) = 2
    /\ Len(gd_tracks[2]) = 2
    /\ gd_tracks[2][1] = <<>>
    /\ Len(gd_files[<<"simplified", 0>>].tracks[1][1]) = 4
    /\ Cardinality(DOMAIN gd_files) = 7

\* The position of source waypoint k among the non-summit waypoints.
PoiPosition(k) == Cardinality({j \in 1..k : ~IsSummitSymbol(gd_waypoints[j].symbol)})

\* C27: the -detailed file is written after build_summits_gpx and
\* build_poi_gpx have changed the source waypoints in place: in it a summit's
\* symbol is 'Summit', a non-summit waypoint without a name has the name
\* 'POI i', i its position among the non-summit waypoints, and one without a
\* symbol the symbol 'Info'; everything else is as loaded, and the tracks are
\* unchanged in every derivative file.
C27_DetailedShowsBuildersChanges ==
    gd_outcome = "written" =>
        LET detailed == gd_files[<<"detailed", 0>>] IN
        /\ Len(detailed.waypoints) = Len(gd_waypoints)
        /\ \A k \in 1..Len(gd_waypoints) :
              LET loaded == gd_waypoints[k]
                  written == detailed.waypoints[k]
              IN  /\ written.id = loaded.id
                  /\ IF IsSummitSymbol(loaded.symbol)
                     THEN /\ written.symbol = Some(<<"S", "u", "m", "m", "i", "t">>)
                          /\ written.name = loaded.name
                     ELSE /\ written.name = IF loaded.name = None THEN Some(<<"POI", PoiPosition(k)>>) ELSE loaded.name
                          /\ written.symbol = IF loaded.symbol \in {None, Some(<<>>)} THEN Some(<<"I", "n", "f", "o">>) ELSE loaded.symbol
        /\ detailed.tracks = gd_tracks
        /\ gd_files[<<"track", 0>>].tracks = gd_tracks
        /\ \A i \in 1..Len(gd_tracks) : gd_files[<<"leg", i>>].tracks[1] = gd_tracks[i]

\* A summit written ' SUMMIT ' first, then a waypoint without name and symbol:
\* the detailed file shows 'Summit' and 'POI 1' with 'Info'.
C27_Witness ==
    /\ gd_outcome = "written"
    /\ Len(gd_waypoints) = 2
    /\ gd_waypoints[1].symbol = Some(<<" ", "S", "U", "M", "M", "I", "T", " ">>)
    /\ gd_waypoints[2].name = None
    /\ gd_waypoints[2].symbol = None
    /\ Len(gd_tracks) = 1
    /\ gd_files[<<"detailed", 0>>].waypoints[1].symbol = Some(<<"S", "u", "m", "m", "i", "t">>)
    /\ gd_files[<<"detailed", 0>>].waypoints[2].name = Some(<<"POI", 1>>)
    /\ gd_files[<<"detailed", 0>>].waypoints[2].symbol = Some(<<"I", "n", "f", "o">>)

\* The batch that coordinate i belongs to.
BatchOf(i) == (i - 1) \div OpenElevationBatchSize + 1

\* C22: get_elevation_open_elevation calls the API in batches of at most
\* the batch size and returns a list with exactly one entry per input
\* coordinate in input order; a batch whose request fails contributes None for
\* each of its coordinates, and the batches after a failed one are still
\* requested.
C22_OneEntryPerCoordinate ==
    oe_pc = "returned" =>
        /\ \A b \in 1..Len(oe_requests) : Len(oe_requests[b]) <= OpenElevationBatchSize
        /\ ConcatAll(oe_requests) = oe_coordinates
        /\ Len(oe_elevations) = Len(oe_coordinates)
        /\ \A i \in 1..Len(oe_coordinates) :
              /\ oe_outcomes[BatchOf(i)] = "fail" => oe_elevations[i] = None
              /\ oe_outcomes[BatchOf(i)] = "ok" =>
                    oe_elevations[i] = Some(Terrain(oe_coordinates[i][1], oe_coordinates[i][2]))

\* The values of the list that are not None.
PresentElevations == {Val(vd_elevations[i]) : i \in {j \in 1..Len(vd_elevations) : vd_elevations[j] # None}}

\* The consecutive pairs of values that differ by more than 500.
LargeChanges ==
    {i \in 2..Len(vd_elevations) :
        /\ vd_elevations[i] # None
        /\ vd_elevations[i - 1] # None
        /\ \/ float_sub(Val(vd_elevations[i]), Val(vd_elevations[i - 1])) > 5000
           \/ float_sub(Val(vd_elevations[i - 1]), Val(vd_elevations[i])) > 5000}

\* When validate_elevation_data is to answer valid = False.
MustBeInvalid ==
    \/ vd_elevations = <<>>
    \/ Len(vd_elevations) # vd_coordinates
    \/ PresentElevations = {}
    \/ \E e \in PresentElevations : e < 0 - 5000 \/ e > 90000
    \/ 10 * Cardinality(LargeChanges) > Len(vd_elevations)

\* C23 as stated: valid = False exactly in the cases listed, and otherwise
\* valid = True with statistics in which valid_points <= total_points and
\* min_elevation <= mean_elevation <= max_elevation.
C23_ValidExactlyWhen ==
    vd_pc = "returned" =>
        LET result == Val(vd_result) IN
        /\ result.valid = ~MustBeInvalid
        /\ result.valid =>
              LET stats == Val(result.stats) IN
              /\ stats.valid_points <= stats.total_points
              /\ stats.min_elevation <= stats.mean_elevation
              /\ stats.mean_elevation <= stats.max_elevation

\* C23 amended: valid = False exactly in the cases listed, and otherwise
\* valid = True with statistics in which valid_points <= total_points and
\* min_elevation <= max_elevation; min_elevation <= mean_elevation <=
\* max_elevation holds when the float sum of the values is their exact sum.
C23_ValidExactlyWhenMeanRounded ==
    vd_pc = "returned" =>
        LET result == Val(vd_result) IN
        /\ result.valid = ~MustBeInvalid
        /\ result.valid =>
              LET stats == Val(result.stats)
                  values == valid_elevations_of(vd_elevations)
              IN  /\ stats.valid_points <= stats.total_points
                  /\ stats.min_elevation <= stats.max_elevation
                  /\ stats.min_elevation = seq_min(values)
                  /\ stats.max_elevation = seq_max(values)
                  /\ float_sum(values, vd_summation) = exact_sum(values) =>
                        /\ stats.min_elevation <= stats.mean_elevation
                        /\ stats.mean_elevation <= stats.max_elevation

\* A valid list of eleven points with one large change and one missing
\* value, whose mean lies between its different lowest and highest values.
C23_Witness ==
    /\ vd_pc = "returned"
    /\ Val(vd_result).valid
    /\ Len(vd_elevations) = 3 + FlatTail
    /\ Cardinality(LargeChanges) = 1
    /\ \E i \in 1..Len(vd_elevations) : vd_elevations[i] = None
    /\ Val(Val(vd_result).stats).min_elevation < Val(Val(vd_result).stats).mean_elevation
    /\ Val(Val(vd_result).stats).mean_elevation < Val(Val(vd_result).stats).max_elevation

\* The tracks of the file that have a segment with points.
TracksWithPoints == {t \in 1..Len(pe_tracks) : \E s \in 1..Len(pe_tracks[t]) : pe_tracks[t][s] # <<>>}

\* The points of the output whose elevation was replaced.
ReplacedPoints ==
    {<<t, s, k>> \in (1..MaxGpxTracks) \X (1..MaxGpxSegments) \X (1..(OpenElevationBatchSize + 1)) :
        /\ t <= Len(Val(pe_output))
        /\ s <= Len(Val(pe_output)[t])
        /\ k <= Len(Val(pe_output)[t][s])
        /\ Val(pe_output)[t][s][k].elevation = "smoothed"}

\* C24: on success tracks_processed is the number of tracks that were
\* processed and points_processed the number of track points whose elevation
\* was replaced.
C24_CountsTracksAndReplacedPoints ==
    (pe_pc = "returned" /\ Val(pe_results).success) =>
        /\ Val(pe_results).tracks_processed = Cardinality(TracksWithPoints)
        /\ Val(pe_results).points_processed = Cardinality(ReplacedPoints)

\* The cache as fetch_srtm_elevations loads it, and the keys it misses.
CacheAtStart == load_elevation_cache(el_cache_file)

MissingAtStart == missing_keys_of(graph, RequestedNodes, CacheAtStart)

\* The cache key of a location of a request.
LocationKey(location) == <<round5(location.latitude), round5(location.longitude)>>

\* The results with an elevation that the answers to the requests carried.
ReceivedResults(requests, responses) ==
    UNION {{r \in ResponseResults(responses[i], requests[i].locations) : ~IsNone(r.elevation)} :
              i \in {j \in 1..Len(requests) : responses[j] # "fail"}}

\* A direct call of fetch_srtm_elevations from start to return.
FetchStep == el_pc = "pending" /\ el_pc' = "fetched"

\* Only missing keys are requested, each once, in batches of at most
\* batch_size, and none after the first failure.
RequestsOnlyMissingUntilFailure ==
    /\ Len(el_responses') = Len(el_requests')
    /\ \A i \in 1..Len(el_requests') :
          /\ Len(el_requests'[i].locations) <= el_batch_size
          /\ \A j \in 1..Len(el_requests'[i].locations) :
                /\ LocationKey(el_requests'[i].locations[j]) \in MissingAtStart
                /\ \A i2 \in 1..Len(el_requests') : \A j2 \in 1..Len(el_requests'[i2].locations) :
                      LocationKey(el_requests'[i].locations[j]) = LocationKey(el_requests'[i2].locations[j2])
                          => (i = i2 /\ j = j2)
          /\ i < Len(el_requests') => el_responses'[i] # "fail"

\* What was received is returned for the nodes with that key; a node is in
\* the mapping returned exactly when its key was in the cache or was received.
ReceivedAreReturned ==
    LET received == ReceivedResults(el_requests', el_responses') IN
    /\ \A r \in received : \A n \in RequestedNodes :
          coord_key(graph, n) = LocationKey(r) =>
              (n \in DOMAIN el_elevations' /\ el_elevations'[n] = Val(r.elevation))
    /\ DOMAIN el_elevations' =
          {n \in RequestedNodes :
              coord_key(graph, n) \in (DOMAIN CacheAtStart) \cup {LocationKey(r) : r \in received}}
    /\ \A n \in DOMAIN el_elevations' :
          coord_key(graph, n) \in DOMAIN CacheAtStart =>
              el_elevations'[n] = CacheAtStart[coord_key(graph, n)]

\* The cache file holds what was received.
ReceivedAreInFile ==
    \A r \in ReceivedResults(el_requests', el_responses') :
        /\ el_cache_file'.state = "valid"
        /\ LocationKey(r) \in DOMAIN el_cache_file'.data
        /\ el_cache_file'.data[LocationKey(r)] = Val(r.elevation)

\* No entry of the cache is removed.
NoEntryRemoved == \A k \in DOMAIN CacheAtStart : k \in DOMAIN load_elevation_cache(el_cache_file')

WaypointsOfSection(section) ==
    LET own == SelectSeq(mp_waypoints, LAMBDA wpt : wpt.section = section) IN
    [i \in 1..Len(own) |-> first_four(own[i])]

\* The groups that are routed: at least two waypoints, of which at least two
\* were snapped.
RoutedGroups ==
    {k \in 1..Len(mp_groups) :
        /\ Len(mp_groups[k].value) >= 2
        /\ mp_node_ids[k] # None
        /\ Len(Val(mp_node_ids[k])) >= 2}

\* The group of track t: the t-th routed group.
GroupOfTrack(t) == CHOOSE k \in RoutedGroups : Cardinality({j \in RoutedGroups : j <= k}) = t

\* C26: each waypoint is in exactly one group, in input order; a section with
\* fewer than 2 waypoints, or fewer than 2 after snapping, yields no track and
\* every other section exactly one; the output holds every input waypoint.
C26_GroupsTracksAndWaypoints ==
    mp_pc = "exported" =>
        /\ \A k, j \in 1..Len(mp_groups) : mp_groups[k].key = mp_groups[j].key => k = j
        /\ {mp_groups[k].key : k \in 1..Len(mp_groups)} = {mp_waypoints[i].section : i \in 1..Len(mp_waypoints)}
        /\ \A k \in 1..Len(mp_groups) : mp_groups[k].value = WaypointsOfSection(mp_groups[k].key)
        /\ Len(Val(mp_gpx).tracks) = Cardinality(RoutedGroups)
        /\ \A t \in 1..Len(Val(mp_gpx).tracks) :
              Val(mp_gpx).tracks[t].name = track_name_of(mp_groups[GroupOfTrack(t)].key)
        /\ Len(Val(mp_gpx).waypoints) = Len(mp_waypoints)
        /\ \A i \in 1..Len(mp_waypoints) :
              /\ Val(mp_gpx).waypoints[i].latitude = mp_waypoints[i].lat
              /\ Val(mp_gpx).waypoints[i].longitude = mp_waypoints[i].lon
              /\ Val(mp_gpx).waypoints[i].name = mp_waypoints[i].name
              /\ Val(mp_gpx).waypoints[i].symbol = mp_waypoints[i].symbol

\* An output with one track, for a section whose two waypoints are not
\* adjacent in the input; the waypoint between them, alone in its section and
\* beyond the snap threshold, is in the output too.
C26_Witness ==
    /\ mp_pc = "exported"
    /\ Len(mp_waypoints) = 3
    /\ mp_waypoints[1].section = mp_waypoints[3].section
    /\ mp_waypoints[1].section # mp_waypoints[2].section
    /\ mp_waypoints[2].lat = 2
    /\ mp_snap_threshold = 1
    /\ Len(mp_groups) = 2
    /\ Len(Val(mp_gpx).tracks) = 1
    /\ Val(mp_gpx).tracks[1].segments[1] # <<>>
    /\ Len(Val(mp_gpx).waypoints) = 3

\* The waypoints of the input whose symbol is 'Summit'.
InputSummits == {i \in 1..Len(en_waypoints) : en_waypoints[i].symbol = Some("Summit")}

\* C28: when enrich_gpx_with_hill_data finishes, updated plus the number of
\* warnings is the number of waypoints with the symbol 'Summit', and the
\* output file is written in every case.
C28_EverySummitAccountedAndOutputWritten ==
    en_outcome \notin {"idle", "pending"} =>
        /\ en_updated + Len(en_warnings) = Cardinality(InputSummits)
        /\ en_output # None

\* A call of refresh_access_token from start to end.
RefreshStep == rf_calls' = rf_calls + 1

\* C29: refresh_access_token either replaces access_token and refresh_token
\* with the values of the token response and returns True, or leaves both
\* unchanged and returns False; with the refresh token, client id or client
\* secret missing it returns False without an HTTP request.
C29_RefreshAllOrNothing ==
    [][RefreshStep =>
          /\ \/ /\ rf_outcome' = "True"
                /\ rf_response' # None
                /\ rf_access_token' = Val(rf_response').access_token
                /\ rf_refresh_token' = Val(rf_response').refresh_token
             \/ /\ rf_outcome' = "False"
                /\ rf_access_token' = rf_access_token
                /\ rf_refresh_token' = rf_refresh_token
          /\ missing_credentials(rf_refresh_token, rf_client_id, rf_client_secret) =>
                /\ rf_outcome' = "False"
                /\ rf_posts' = rf_posts]_vars
====
